---- MODULE Spec2Model ----
(***************************************************************************)
(* The episode-generation pipeline of the podcast generator:               *)
(*   app/workers/tasks.py   process_episode_task and its stage wrappers    *)
(*   app/workers/worker.py  cleanup_abandoned_jobs                         *)
(*   app/services/tts_api.py APITTSService.synthesize_segments             *)
(*   app/services/audio_mixer.py AudioMixer.mix                            *)
(*   app/services/chunker.py TextChunker.chunk                             *)
(*   app/services/vector_store.py VectorStore.add, get_episode_chunks      *)
(*   app/services/llm.py LLMService._generate_hf                           *)
(*   app/services/script_generator.py ScriptGenerator._parse_script        *)
(*   app/api/v1/endpoints/episodes.py create_episode                       *)
(* One episode row, the deliveries of its job (Runs), the job metadata,    *)
(* the chunk table, the retrieval index and the episode's output           *)
(* directory.                                                              *)
(***************************************************************************)
EXTENDS Integers, Sequences, FiniteSets, TLC

\* ---------------------------------------------------------------- bounds

\* Longest segment list handed to synthesize_segments and to AudioMixer.mix.
MaxSegments == 3

\* Deliveries of the episode's job (the first one and its re-deliveries).
MaxRuns == 2
\* Largest number of dialogue segments a generated script parses into.
NumSegments == 2
\* Chunks the chunker cuts the (unchanged) source content into.
NumChunks == 2
\* Failures of the two sinks (status write, job metadata) in one behaviour.
MaxSinkFaults == 1

\* The worker processes a delivery can go to.
Workers == {1, 2}
ChunkIdx == 0..(NumChunks - 1)

\* ------------------------------------------------------------- constants

\* JobStatus (app/models/__init__.py)
PENDING == "pending"
PROCESSING == "processing"
COMPLETED == "completed"
FAILED == "failed"
CANCELLED == "cancelled"
JobStatus == {PENDING, PROCESSING, COMPLETED, FAILED, CANCELLED}

\* Messages the code writes.
MsgCreated == "Processing started"
MsgAudioUnavailable == "Script ready (audio unavailable)"
MsgComplete == "Episode generated successfully"
MsgFailed == "Processing failed"
MsgInterrupted == "Processing interrupted (timeout)"
ErrAbandoned == "Job was abandoned"

\* str(e) of the exceptions that can end a run.
ErrMemoryStart == "System memory too high"
ErrMemoryScript == "System memory too high before script generation"
ErrExtraction == "extraction failed"
ErrScript == "script generation failed"
ErrJobMeta == "save_meta failed"
ErrStatusWrite == "status write failed"
ErrNoSegments == "No script segments found for audio synthesis"
ErrNoAudio == "Failed to synthesize any audio segments"
ErrMix == "mixing failed"
ErrCover == "cover generation failed"

\* -------------------------------------------------------------- variables

VARIABLES
    ep,          \* the Episode row as committed in the database
    stale,       \* the row's updated_at is older than the sweeper's cutoff
    chunkRows,   \* content_chunks: rows stored per chunk_index
    indexPoints, \* retrieval index: points stored per chunk_index
    jobMeta,     \* job.meta of the episode's job
    segDir,      \* <output_dir>/segments exists
    segFiles,    \* segment files in it (by segment index)
    podcastFile, \* <output_dir>/podcast.mp3 exists
    coverFile,   \* <output_dir>/cover.png exists
    generate_cover, \* the job's generate_cover argument
    env,         \* what the environment may do: overlapping deliveries,
                 \* re-deliveries, failing sinks, memory pressure after the start
    faults,      \* sink failures so far
    deliveries,  \* deliveries of the job so far
    run,         \* per worker: position and locals of its process_episode_task
    tts,         \* one call of APITTSService.synthesize_segments, step by step
    mixer,       \* one call of AudioMixer.mix: its input and its result
    chunker,     \* one call of TextChunker.chunk, step by step
    vstore,      \* the retrieval collection shared by all episodes
    voices,      \* one voice mapping built by synthesize_audio_sync
    llm,         \* one call of LLMService._generate_hf and its request threads
    api          \* the create_episode request that made the row and enqueues the job

vars == <<ep, stale, chunkRows, indexPoints, jobMeta, segDir, segFiles,
          podcastFile, coverFile, generate_cover, env, faults, deliveries, run,
          tts, mixer, chunker, vstore, voices, llm, api>>

\* The pipeline's variables, and those of the services followed on their own.
pipeline == <<ep, stale, chunkRows, indexPoints, jobMeta, segDir, segFiles,
              podcastFile, coverFile, generate_cover, env, faults, deliveries, run>>

aux == <<tts, mixer, chunker, vstore, voices, llm, api>>

\* A service that is not the one a specification follows stays idle.
Idle == [pc |-> "idle"]

shared == <<ep, stale, chunkRows, indexPoints, jobMeta, segDir, segFiles,
            podcastFile, coverFile>>

\* The observations of one run: what each stage it invoked did.
NoObs == [mem1 |-> "none", extract |-> "none", index |-> "none", context |-> "none",
          mem2 |-> "none", mem2mb |-> "none",
          script |-> "none", memTts |-> "none", tts |-> "none", mix |-> "none",
          cover |-> "none"]

InitRun == [pc |-> "idle",
            n |-> 0,             \* len(parsed_segments)
            i |-> 0,             \* loop index of synthesize_segments
            synth |-> {},        \* indices whose result has an audio_path
            pending |-> "null",  \* episode.audio_url set in the session, not committed
            err |-> "",          \* str(e) of the exception in flight
            invoked |-> <<>>,    \* stages invoked, in order
            obs |-> NoObs,
            outcome |-> "none",  \* returned | raised | crashed
            metaFault |-> FALSE, \* update_job_progress raised in this run
            finalWrite |-> "none", \* status of the run's last status write
            finalWritten |-> FALSE, \* ... and whether it was committed
            retries |-> 0,       \* most retries one status write of the run made
            lastProg |-> 0,      \* last progress this run committed with PROCESSING
            cleaned |-> FALSE]   \* the finally block's cleanup ran

\* create_episode: the row as committed before the job is enqueued.
InitEpisode == [status |-> PENDING, progress |-> 0,
                status_message |-> MsgCreated, error_message |-> "",
                script |-> FALSE, transcript |-> FALSE,
                audio_url |-> "null", cover_url |-> "null"]

\* The stores and the workers before any delivery.
InitStores ==
    /\ stale = FALSE
    /\ chunkRows = [c \in ChunkIdx |-> 0]
    /\ indexPoints = [c \in ChunkIdx |-> 0]
    /\ jobMeta = [progress |-> 0, message |-> ""]
    /\ segDir = FALSE
    /\ segFiles = {}
    /\ podcastFile = FALSE
    /\ coverFile = FALSE
    /\ generate_cover \in BOOLEAN
    /\ faults = 0
    /\ deliveries = 0
    /\ run = [w \in Workers |-> InitRun]

\* create_episode has returned: the row is committed and the job is enqueued.
InitPipeline ==
    /\ ep = InitEpisode
    /\ api = Idle
    /\ InitStores

\* The pipeline alone: the two services are followed in specifications of their own.
InitCommon ==
    /\ InitPipeline
    /\ tts = [pc |-> "idle"]
    /\ mixer = [pc |-> "idle"]
    /\ chunker = Idle
    /\ vstore = Idle
    /\ voices = Idle
    /\ llm = Idle

\* One worker, reliable sinks, the job delivered up to MaxRuns times.
Init ==
    /\ InitCommon
    /\ env = [overlap |-> FALSE, redelivery |-> TRUE, sinkFaults |-> FALSE,
              pressure |-> FALSE]

\* One delivery, reliable sinks.
InitOnce ==
    /\ InitCommon
    /\ env = [overlap |-> FALSE, redelivery |-> FALSE, sinkFaults |-> FALSE,
              pressure |-> FALSE]

\* One delivery, reliable sinks, and memory that may be above the marks whenever
\* the task is about to start a heavy stage.
InitGuards ==
    /\ InitCommon
    /\ env = [overlap |-> FALSE, redelivery |-> FALSE, sinkFaults |-> FALSE,
              pressure |-> TRUE]

\* One delivery, with sinks (status write, job metadata) that can fail.
InitSinks ==
    /\ InitCommon
    /\ env = [overlap |-> FALSE, redelivery |-> FALSE, sinkFaults |-> TRUE,
              pressure |-> FALSE]

\* Deliveries that may overlap on two workers, reliable sinks.
InitOverlap ==
    /\ InitCommon
    /\ env = [overlap |-> TRUE, redelivery |-> TRUE, sinkFaults |-> FALSE,
              pressure |-> FALSE]

Active(r) == run[r].pc \notin {"idle", "exited"}


\* ------------------------------------------------------------------ sinks

\* What a status write can meet in the database session:
\*   ok                  the commit succeeds
\*   invalid_retry_ok    PendingRollbackError / InvalidRequestError, the retry commits
\*   invalid_retry_fail  ... and the retry fails too
\*   fail                any other exception
DbOutcomes == {"ok", "invalid_retry_ok", "invalid_retry_fail", "fail"}

\* The row after the assignments of update_episode_status and its commit, which
\* also flushes an audio_url pending in the same session.
WriteRow(e, pend, status, progress, message, error) ==
    [e EXCEPT !.status = status,
              !.progress = progress,
              !.status_message = message,
              !.error_message = IF error # "" THEN error ELSE @,
              !.audio_url = IF pend # "null" THEN pend ELSE @]

\* A status write that lets the failure of its commit escape to the caller.
update_episode_status_raising(e, pend, db, status, progress, message, error) ==
    [ep |-> IF db = "ok" THEN WriteRow(e, pend, status, progress, message, error)
            ELSE IF db = "invalid_retry_ok"
                 THEN WriteRow(e, "null", status, progress, message, error)
                 ELSE e,
     pending |-> "null",
     committed |-> db \in {"ok", "invalid_retry_ok"},
     retries |-> IF db \in {"invalid_retry_ok", "invalid_retry_fail"} THEN 1 ELSE 0,
     raised |-> db \in {"invalid_retry_fail", "fail"}]

\* update_episode_status: the result of one call. A rollback drops what was
\* pending in the session; no outcome raises.
update_episode_status(e, pend, db, status, progress, message, error) ==
    [ep |-> IF db = "ok" THEN WriteRow(e, pend, status, progress, message, error)
            ELSE IF db = "invalid_retry_ok"
                 THEN WriteRow(e, "null", status, progress, message, error)
                 ELSE e,
     pending |-> "null",
     committed |-> db \in {"ok", "invalid_retry_ok"},
     retries |-> IF db \in {"invalid_retry_ok", "invalid_retry_fail"} THEN 1 ELSE 0,
     raised |-> FALSE]

\* update_job_progress: job.save_meta() is not guarded, its failure propagates.
update_job_progress(meta, saveOk, progress, message) ==
    [meta |-> IF saveOk THEN [progress |-> progress, message |-> message] ELSE meta,
     raised |-> ~saveOk]

FaultBudget == IF env.sinkFaults THEN MaxSinkFaults ELSE 0

SinkFaults(db, saveOk) ==
    (IF db = "ok" THEN 0 ELSE 1) + (IF saveOk THEN 0 ELSE 1)

\* One checkpoint: the pair update_job_progress / update_episode_status in the
\* order the code calls them. order "status_first" is lines 137-141, "meta_first"
\* every other checkpoint, "meta_only" a checkpoint with no status write.
\* err is str(e) of what the pair raised, "" when it returned.
CheckpointResult(r, order, status, progress, message, jobMessage, error, db, saveOk) ==
    LET w == update_episode_status(ep, run[r].pending, db, status, progress, message, error)
        j == update_job_progress(jobMeta, saveOk, progress, jobMessage)
        none == [ep |-> ep, pending |-> run[r].pending, meta |-> jobMeta,
                 attempted |-> FALSE, committed |-> FALSE, retries |-> 0,
                 metaFault |-> FALSE, err |-> ""]
    IN  CASE order = "status_first" ->
               IF w.raised
               THEN [none EXCEPT !.ep = w.ep, !.pending = w.pending,
                                 !.attempted = TRUE, !.committed = w.committed,
                                 !.retries = w.retries,
                                 !.err = ErrStatusWrite]
               ELSE [none EXCEPT !.ep = w.ep, !.pending = w.pending,
                                 !.attempted = TRUE, !.committed = w.committed,
                                 !.retries = w.retries,
                                 !.meta = j.meta, !.metaFault = j.raised,
                                 !.err = IF j.raised THEN ErrJobMeta ELSE ""]
          [] order = "meta_first" ->
               IF j.raised
               THEN [none EXCEPT !.metaFault = TRUE, !.err = ErrJobMeta]
               ELSE [none EXCEPT !.meta = j.meta,
                                 !.ep = w.ep, !.pending = w.pending,
                                 !.attempted = TRUE, !.committed = w.committed,
                                 !.retries = w.retries,
                                 !.err = IF w.raised THEN ErrStatusWrite ELSE ""]
          [] OTHER ->
               [none EXCEPT !.meta = j.meta, !.metaFault = j.raised,
                            !.err = IF j.raised THEN ErrJobMeta ELSE ""]

\* The environment's choices at a checkpoint, within the fault budget. A choice
\* the checkpoint does not read is fixed, so that no step is counted twice.
SinkChoices(order) ==
    {c \in DbOutcomes \X BOOLEAN :
        /\ faults + SinkFaults(c[1], c[2]) <= FaultBudget
        /\ (order = "meta_only" => c[1] = "ok")
        /\ (order = "meta_first" /\ ~c[2] => c[1] = "ok")}

\* The run's locals after a checkpoint that goes to okPc, or to the handler
\* errPc of the enclosing try when the pair raised.
AfterCheckpoint(rr, c, status, progress, okPc, errPc) ==
    [rr EXCEPT !.pc = IF c.err = "" THEN okPc ELSE errPc,
               !.err = IF c.err = "" THEN @ ELSE c.err,
               !.pending = c.pending,
               !.metaFault = @ \/ c.metaFault,
               !.lastProg = IF c.committed /\ status = PROCESSING THEN progress ELSE @,
               !.finalWrite = IF c.attempted THEN status ELSE @,
               !.finalWritten = IF c.attempted THEN c.committed ELSE @,
               !.retries = IF c.retries > @ THEN c.retries ELSE @]

Invoke(rr, stage) == [rr EXCEPT !.invoked = Append(@, stage)]


\* ---------------------------------------------------------------- actions

\* psutil.virtual_memory().percent as sampled by the two memory checks: values
\* on both sides of the thresholds 85 (job start) and 90 (before the script).
MemSamples == IF env.overlap THEN {85} ELSE {85, 86, 90, 91}

\* Whether a stage outside the audio path succeeds. Where two runs overlap, the
\* stages before and after the audio path are taken to succeed: what is followed
\* there is the two runs' use of the one segments directory.
StageOutcomes == IF env.overlap THEN {TRUE} ELSE BOOLEAN

\* get_memory_usage_mb() as sampled before the script (tasks.py 182, 193): values
\* on both sides of the 450 MB mark.
ProcessMemSamples == IF env.pressure THEN {450, 451} ELSE {450}

\* psutil.virtual_memory().percent at the moment speech synthesis starts.
SynthesisMemSamples == IF env.pressure THEN {90, 91} ELSE {90}

\* The queue hands the job to a free worker, which starts process_episode_task
\* with fresh locals: the first delivery, or a re-delivery (a retry, a requeue).
\* Without overlap a delivery waits for the previous run to have ended.
Deliver(r) ==
    /\ ~Active(r)
    /\ deliveries < (IF env.redelivery THEN MaxRuns ELSE 1)
    /\ \A q \in Workers : q < r => Active(q)
    /\ env.overlap \/ \A q \in Workers : ~Active(q)
    /\ deliveries' = deliveries + 1
    /\ run' = [run EXCEPT ![r] = [InitRun EXCEPT !.pc = "start"]]
    /\ UNCHANGED <<shared, generate_cover, env, faults>>
    /\ UNCHANGED aux

\* tasks.py 101-141: the memory guard, which raises outside the try block, then
\* the episode query and the first checkpoint (status first, job metadata second).
Start(r) ==
    /\ run[r].pc = "start"
    /\ \E mem \in MemSamples :
         IF mem > 85
         THEN /\ run' = [run EXCEPT ![r] =
                     [@ EXCEPT !.pc = "exited", !.outcome = "raised",
                               !.err = ErrMemoryStart, !.obs.mem1 = "high"]]
              /\ UNCHANGED <<shared, faults>>
         ELSE \E ch \in SinkChoices("status_first") :
                LET c == CheckpointResult(r, "status_first", PROCESSING, 0,
                             "Starting processing pipeline",
                             "Starting processing pipeline", "", ch[1], ch[2])
                IN  /\ ep' = c.ep
                    /\ jobMeta' = c.meta
                    /\ stale' = (stale /\ ~c.committed)
                    /\ faults' = faults + SinkFaults(ch[1], ch[2])
                    /\ run' = [run EXCEPT ![r] =
                           AfterCheckpoint([@ EXCEPT !.obs.mem1 = "ok"], c,
                                           PROCESSING, 0, "cp5", "failed")]
                    /\ UNCHANGED <<chunkRows, indexPoints, segDir, segFiles,
                                   podcastFile, coverFile>>
    /\ UNCHANGED <<generate_cover, env, deliveries>>
    /\ UNCHANGED aux

\* The checkpoints that are a plain update_job_progress / update_episode_status
\* pair: position -> progress, messages, next position, handler of the enclosing try.
Checkpoints ==
    [cp5  |-> [progress |-> 5, message |-> "Extracting content",
               jobMessage |-> "Extracting content from source",
               okPc |-> "extract", errPc |-> "failed"],
     cp10 |-> [progress |-> 10, message |-> "Content extracted",
               jobMessage |-> "Content extracted",
               okPc |-> "cp15", errPc |-> "failed"],
     cp15 |-> [progress |-> 15, message |-> "Creating embeddings",
               jobMessage |-> "Chunking and embedding content",
               okPc |-> "chunk", errPc |-> "failed"],
     cp30 |-> [progress |-> 30, message |-> "Embeddings stored",
               jobMessage |-> "Embeddings created",
               okPc |-> "cp35", errPc |-> "failed"],
     cp35 |-> [progress |-> 35, message |-> "Generating script",
               jobMessage |-> "Generating podcast script",
               okPc |-> "script", errPc |-> "failed"],
     cp50 |-> [progress |-> 50, message |-> "Script ready",
               jobMessage |-> "Script generated",
               okPc |-> "cp55", errPc |-> "failed"],
     cp55 |-> [progress |-> 55, message |-> "Generating audio",
               jobMessage |-> "Synthesizing speech",
               okPc |-> "tts_start", errPc |-> "audio_failed"],
     cp80 |-> [progress |-> 80, message |-> "Mixing audio",
               jobMessage |-> "Mixing final audio",
               okPc |-> "mix", errPc |-> "audio_failed"],
     cp92 |-> [progress |-> 92, message |-> "Creating cover",
               jobMessage |-> "Generating cover image",
               okPc |-> "cover", errPc |-> "cover_failed"]]

\* A guard that lets an empty segment list through to speech synthesis.
NoSegments_never(n) == FALSE

\* tasks.py 244: "if not parsed_segments", the list _parse_script returned.
NoSegments(n) == n = 0

\* One plain checkpoint (job metadata first, then the status write). After the
\* one at 55 the code raises ValueError when there is no parsed segment.
Checkpoint(r) ==
    /\ run[r].pc \in DOMAIN Checkpoints
    /\ LET cp == Checkpoints[run[r].pc]
       IN  \E ch \in SinkChoices("meta_first") :
             LET c == CheckpointResult(r, "meta_first", PROCESSING, cp.progress,
                          cp.message, cp.jobMessage, "", ch[1], ch[2])
                 okPc == IF run[r].pc = "cp55" /\ NoSegments(run[r].n)
                         THEN "audio_failed" ELSE cp.okPc
             IN  /\ ep' = c.ep
                 /\ jobMeta' = c.meta
                 /\ stale' = (stale /\ ~c.committed)
                 /\ faults' = faults + SinkFaults(ch[1], ch[2])
                 /\ run' = [run EXCEPT ![r] =
                        AfterCheckpoint(@, c, PROCESSING, cp.progress, okPc, cp.errPc)]
    /\ UNCHANGED <<chunkRows, indexPoints, segDir, segFiles, podcastFile,
                   coverFile, generate_cover, env, deliveries>>
    /\ UNCHANGED aux

\* An extraction stage whose failure is swallowed: the run goes on.
Extract_swallowed(r) ==
    /\ run[r].pc = "extract"
    /\ \E ok \in BOOLEAN :
         run' = [run EXCEPT ![r] =
             [Invoke(@, "extract") EXCEPT !.pc = "cp10",
                                          !.obs.extract = IF ok THEN "ok" ELSE "fail"]]
    /\ UNCHANGED <<shared, generate_cover, env, faults, deliveries>>
    /\ UNCHANGED aux

\* tasks.py 153, extract_content_sync: returns the content or raises.
Extract(r) ==
    /\ run[r].pc = "extract"
    /\ \E ok \in StageOutcomes :
         run' = [run EXCEPT ![r] =
             IF ok
             THEN [Invoke(@, "extract") EXCEPT !.pc = "cp10", !.obs.extract = "ok"]
             ELSE [Invoke(@, "extract") EXCEPT !.pc = "failed", !.err = ErrExtraction,
                                                !.obs.extract = "fail"]]
    /\ UNCHANGED <<shared, generate_cover, env, faults, deliveries>>
    /\ UNCHANGED aux

\* VectorStore.add: every call draws fresh uuid4 ids and upserts one point per text.
VectorStoreAdd(points) == [c \in ChunkIdx |-> points[c] + 1]

\* chunk_content_sync 531-543: one new ContentChunk row per chunk, committed.
AddChunkRows(rows) == [c \in ChunkIdx |-> rows[c] + 1]

\* A chunking stage in which a failure of the index add is fatal: no row is
\* stored and the exception reaches the handler of the run.
Chunk_index_fatal(r) ==
    /\ run[r].pc = "chunk"
    /\ \E indexOk \in BOOLEAN :
         /\ indexPoints' = IF indexOk THEN VectorStoreAdd(indexPoints) ELSE indexPoints
         /\ chunkRows' = IF indexOk THEN AddChunkRows(chunkRows) ELSE chunkRows
         /\ run' = [run EXCEPT ![r] =
                [Invoke(@, "chunk") EXCEPT !.pc = IF indexOk THEN "cp30" ELSE "failed",
                                        !.err = IF indexOk THEN @ ELSE ErrScript,
                                        !.obs.index = IF indexOk THEN "ok" ELSE "fail"]]
    /\ UNCHANGED <<ep, stale, jobMeta, segDir, segFiles, podcastFile, coverFile,
                   generate_cover, env, faults, deliveries>>
    /\ UNCHANGED aux

\* tasks.py 164, chunk_content_sync: the index add may fail (placeholder ids are
\* used then); the chunk rows are added and committed either way.
Chunk(r) ==
    /\ run[r].pc = "chunk"
    /\ \E indexOk \in StageOutcomes :
         /\ indexPoints' = IF indexOk THEN VectorStoreAdd(indexPoints) ELSE indexPoints
         /\ chunkRows' = AddChunkRows(chunkRows)
         /\ run' = [run EXCEPT ![r] =
                [Invoke(@, "chunk") EXCEPT !.pc = "cp30",
                                        !.obs.index = IF indexOk THEN "ok" ELSE "fail"]]
    /\ UNCHANGED <<ep, stale, jobMeta, segDir, segFiles, podcastFile, coverFile,
                   generate_cover, env, faults, deliveries>>
    /\ UNCHANGED aux


\* ScriptGenerator.generate, script_generator.py 76-93: the context comes from
\* the episode's points in the index; when the scroll raises or returns no
\* point it is built from the raw content.
ScriptContext(points, scrollOk) ==
    IF scrollOk /\ (\E c \in ChunkIdx : points[c] > 0) THEN "index" ELSE "raw"

\* tasks.py 178-231: the second memory check, generate_script_sync, and the
\* commit of episode.script. The check raises on the system percentage only
\* (187); process memory above 450 MB is logged and collected, and the run goes
\* on (193-200). The script parses into n segments, possibly none.
Script(r) ==
    /\ run[r].pc = "script"
    /\ \E mem \in MemSamples, mb \in ProcessMemSamples, scrollOk \in StageOutcomes :
         LET mbObs == IF mb > 450 THEN "high" ELSE "ok"
             ctx == ScriptContext(indexPoints, scrollOk)
         IN
         IF mem > 90
         THEN /\ run' = [run EXCEPT ![r] =
                     [@ EXCEPT !.pc = "failed", !.err = ErrMemoryScript,
                               !.obs.mem2 = "high", !.obs.mem2mb = mbObs]]
              /\ UNCHANGED <<ep, stale>>
         ELSE \E res \in {-1} \cup (0..NumSegments) :
                IF res = -1
                THEN /\ run' = [run EXCEPT ![r] =
                            [Invoke(@, "script") EXCEPT !.pc = "failed", !.err = ErrScript,
                                   !.obs.mem2 = "ok", !.obs.mem2mb = mbObs,
                                   !.obs.context = ctx,
                                   !.obs.script = "fail"]]
                     /\ UNCHANGED <<ep, stale>>
                ELSE /\ ep' = [ep EXCEPT !.script = TRUE]
                     /\ stale' = FALSE
                     /\ run' = [run EXCEPT ![r] =
                            [Invoke(@, "script") EXCEPT !.pc = "cp50", !.n = res,
                                   !.obs.mem2 = "ok", !.obs.mem2mb = mbObs,
                                   !.obs.context = ctx,
                                   !.obs.script = "ok"]]
    /\ UNCHANGED <<chunkRows, indexPoints, jobMeta, segDir, segFiles, podcastFile,
                   coverFile, generate_cover, env, faults, deliveries>>
    /\ UNCHANGED aux

\* tts_progress (tasks.py 250-254): progress = 55 + int((completed / total) * 20),
\* running the other way.
tts_progress_reversed(completed, total) == 75 - ((completed * 20) \div total)

\* tts_progress (tasks.py 250-254): progress = 55 + int((completed / total) * 20).
tts_progress(completed, total) == 55 + ((completed * 20) \div total)

\* synthesize_audio_sync up to the loop of synthesize_segments: the segments
\* directory is created (tts_api.py 379). No memory sample is taken between the
\* script and the speech calls (tasks.py 230-261, 579-626); mem is the system
\* percentage at that moment, which nothing reads. With no segment the loop
\* does not run and RuntimeError is raised (tts_api.py 473-481).
TtsStart(r) ==
    /\ run[r].pc = "tts_start"
    /\ segDir' = TRUE
    /\ \E mem \in SynthesisMemSamples :
         run' = [run EXCEPT ![r] =
           [Invoke(@, "tts") EXCEPT
               !.pc = IF run[r].n = 0 THEN "audio_failed" ELSE "tts_seg",
               !.i = 0, !.synth = {},
               !.obs.tts = IF run[r].n = 0 THEN "fail" ELSE @,
               !.obs.memTts = IF mem > 90 THEN "high" ELSE "ok"]]
    /\ UNCHANGED <<ep, stale, chunkRows, indexPoints, jobMeta, segFiles, podcastFile,
                   coverFile, generate_cover, env, faults, deliveries>>
    /\ UNCHANGED aux

\* One iteration of the loop of synthesize_segments (tts_api.py 386-471): the
\* progress callback, which is called outside the retry loop's try, then the
\* speech calls of the segment, which end with a file or with a null path. After
\* the last segment, no successful segment raises RuntimeError (473-481).
TtsSegment(r) ==
    /\ run[r].pc = "tts_seg"
    /\ LET i == run[r].i
           n == run[r].n
           prog == tts_progress(i, n)
       IN  \E ch \in SinkChoices("meta_first") :
             LET c == CheckpointResult(r, "meta_first", PROCESSING, prog,
                          "Synthesizing segment", "Synthesizing segment", "", ch[1], ch[2])
             IN  /\ ep' = c.ep
                 /\ jobMeta' = c.meta
                 /\ stale' = (stale /\ ~c.committed)
                 /\ faults' = faults + SinkFaults(ch[1], ch[2])
                 /\ IF c.err # ""
                    THEN /\ run' = [run EXCEPT ![r] =
                                [AfterCheckpoint(@, c, PROCESSING, prog, "tts_seg", "audio_failed")
                                    EXCEPT !.obs.tts = "aborted"]]
                         /\ UNCHANGED <<segDir, segFiles>>
                    ELSE \E ok \in BOOLEAN :
                           LET synth == IF ok THEN run[r].synth \cup {i} ELSE run[r].synth
                               last == (i + 1 = n)
                               nextPc == IF ~last THEN "tts_seg"
                                         ELSE IF synth = {} THEN "audio_failed" ELSE "cp80"
                           IN  /\ segFiles' = IF ok THEN segFiles \cup {i} ELSE segFiles
                               /\ segDir' = (segDir \/ ok)
                               /\ run' = [run EXCEPT ![r] =
                                      [AfterCheckpoint(@, c, PROCESSING, prog, nextPc, "audio_failed")
                                          EXCEPT !.i = i + 1, !.synth = synth,
                                                 !.obs.tts = IF ~last THEN @
                                                             ELSE IF synth = {} THEN "fail" ELSE "ok"]]
    /\ UNCHANGED <<chunkRows, indexPoints, podcastFile, coverFile, generate_cover, env, deliveries>>
    /\ UNCHANGED aux

\* tasks.py 276-300: mix_audio_sync writes podcast.mp3; the upload, or its local
\* fallback when the upload raises, sets episode.audio_url (to some "url") in the
\* session; update_job_progress(90).
Mix(r) ==
    /\ run[r].pc = "mix"
    /\ \E mixOk \in BOOLEAN :
         IF ~mixOk
         THEN /\ run' = [run EXCEPT ![r] =
                     [Invoke(@, "mix") EXCEPT !.pc = "audio_failed", !.obs.mix = "fail"]]
              /\ UNCHANGED <<jobMeta, podcastFile, faults>>
         ELSE \E ch \in SinkChoices("meta_only") :
                LET c == CheckpointResult(r, "meta_only", PROCESSING, 90,
                             "", "Audio mixing complete", "", ch[1], ch[2])
                IN  /\ podcastFile' = TRUE
                    /\ jobMeta' = c.meta
                    /\ faults' = faults + SinkFaults(ch[1], ch[2])
                    /\ run' = [run EXCEPT ![r] =
                           [AfterCheckpoint(Invoke(@, "mix"), c, PROCESSING, 90,
                                            "transcript", "audio_failed")
                               EXCEPT !.pending = "url", !.obs.mix = "ok"]]
    /\ UNCHANGED <<ep, stale, chunkRows, indexPoints, segDir, segFiles, coverFile,
                   generate_cover, env, deliveries>>
    /\ UNCHANGED aux

\* An audio handler after which the run goes on to the mixing stage.
AudioFailed_mixes(r) ==
    /\ run[r].pc = "audio_failed"
    /\ \E ch \in SinkChoices("meta_first") :
         LET c == CheckpointResult(r, "meta_first", PROCESSING, 90,
                      MsgAudioUnavailable, MsgAudioUnavailable, "", ch[1], ch[2])
         IN  /\ ep' = c.ep
             /\ jobMeta' = c.meta
             /\ stale' = (stale /\ ~c.committed)
             /\ faults' = faults + SinkFaults(ch[1], ch[2])
             /\ run' = [run EXCEPT ![r] =
                    AfterCheckpoint(@, c, PROCESSING, 90, "mix", "failed")]
    /\ UNCHANGED <<chunkRows, indexPoints, segDir, segFiles, podcastFile, coverFile,
                   generate_cover, env, deliveries>>
    /\ UNCHANGED aux

\* tasks.py 301-305, the handler of the audio try: the exception is dropped, and
\* the checkpoint at 90 says that audio is unavailable.
AudioFailed(r) ==
    /\ run[r].pc = "audio_failed"
    /\ \E ch \in SinkChoices("meta_first") :
         LET c == CheckpointResult(r, "meta_first", PROCESSING, 90,
                      MsgAudioUnavailable, MsgAudioUnavailable, "", ch[1], ch[2])
         IN  /\ ep' = c.ep
             /\ jobMeta' = c.meta
             /\ stale' = (stale /\ ~c.committed)
             /\ faults' = faults + SinkFaults(ch[1], ch[2])
             /\ run' = [run EXCEPT ![r] =
                    AfterCheckpoint(@, c, PROCESSING, 90, "transcript", "failed")]
    /\ UNCHANGED <<chunkRows, indexPoints, segDir, segFiles, podcastFile, coverFile,
                   generate_cover, env, deliveries>>
    /\ UNCHANGED aux

\* tasks.py 309-315: the transcript is the script; the commit also writes the
\* audio_url pending in the session.
Transcript(r) ==
    /\ run[r].pc = "transcript"
    /\ ep' = [ep EXCEPT !.transcript = ep.script,
                        !.audio_url = IF run[r].pending # "null" THEN run[r].pending ELSE @]
    /\ stale' = FALSE
    /\ run' = [run EXCEPT ![r] =
           [@ EXCEPT !.pending = "null",
                     !.pc = IF generate_cover THEN "cp92" ELSE "complete"]]
    /\ UNCHANGED <<chunkRows, indexPoints, jobMeta, segDir, segFiles, podcastFile,
                   coverFile, generate_cover, env, faults, deliveries>>
    /\ UNCHANGED aux

\* ImageGenerator._generate_api, image_generator.py 98-136: the image is written
\* to the path, or any exception of the backend call is caught and None returned.
ImageGenerator_generate_api(backendOk) == IF backendOk THEN "path" ELSE "none"

\* generate_cover_sync that hands a None result on to its caller.
generate_cover_sync_unchecked(ctorOk, backendOk) ==
    IF ~ctorOk THEN [raised |-> TRUE, path |-> "none"]
    ELSE [raised |-> FALSE, path |-> ImageGenerator_generate_api(backendOk)]

\* generate_cover_sync, tasks.py 653-671: ImageGenerator(use_local=False) raises
\* ValueError without an API token; a None result raises RuntimeError.
generate_cover_sync(ctorOk, backendOk) ==
    IF ~ctorOk THEN [raised |-> TRUE, path |-> "none"]
    ELSE LET result == ImageGenerator_generate_api(backendOk)
         IN  IF result = "none" THEN [raised |-> TRUE, path |-> "none"]
             ELSE [raised |-> FALSE, path |-> result]

CoverFailures == {"ctor_error", "null_image", "storage_error"}

\* tasks.py 320-340: generate_cover_sync; StorageService() (324, outside the
\* inner try); the upload, or its fallback when it raises, sets cover_url;
\* commit. Every exception goes to the handler at 341.
Cover(r) ==
    /\ run[r].pc = "cover"
    /\ \E ctorOk \in StageOutcomes, backendOk \in BOOLEAN, storageOk \in StageOutcomes :
         LET g == generate_cover_sync(ctorOk, backendOk)
             what == IF ~ctorOk THEN "ctor_error"
                     ELSE IF ~backendOk THEN "null_image"
                     ELSE IF ~storageOk THEN "storage_error" ELSE "ok"
         IN  IF g.raised
             THEN /\ run' = [run EXCEPT ![r] =
                         [Invoke(@, "cover") EXCEPT !.pc = "cover_failed",
                                                 !.obs.cover = what]]
                  /\ UNCHANGED <<ep, stale, coverFile>>
             ELSE IF ~storageOk
             THEN /\ coverFile' = (coverFile \/ g.path = "path")
                  /\ run' = [run EXCEPT ![r] =
                         [Invoke(@, "cover") EXCEPT !.pc = "cover_failed",
                                                 !.obs.cover = what]]
                  /\ UNCHANGED <<ep, stale>>
             ELSE /\ coverFile' = (coverFile \/ g.path = "path")
                  /\ ep' = [ep EXCEPT !.cover_url = "url"]
                  /\ stale' = FALSE
                  /\ run' = [run EXCEPT ![r] =
                         [Invoke(@, "cover") EXCEPT !.pc = "complete", !.obs.cover = what]]
    /\ UNCHANGED <<chunkRows, indexPoints, jobMeta, segDir, segFiles, podcastFile,
                   generate_cover, env, faults, deliveries>>
    /\ UNCHANGED aux

\* tasks.py 341-345, the handler of the cover try: update_job_progress(95) only.
CoverFailed(r) ==
    /\ run[r].pc = "cover_failed"
    /\ \E ch \in SinkChoices("meta_only") :
         LET c == CheckpointResult(r, "meta_only", PROCESSING, 95,
                      "", "Cover generation skipped", "", ch[1], ch[2])
         IN  /\ jobMeta' = c.meta
             /\ faults' = faults + SinkFaults(ch[1], ch[2])
             /\ run' = [run EXCEPT ![r] =
                    AfterCheckpoint(@, c, PROCESSING, 95, "complete", "failed")]
    /\ UNCHANGED <<ep, stale, chunkRows, indexPoints, segDir, segFiles, podcastFile,
                   coverFile, generate_cover, env, deliveries>>
    /\ UNCHANGED aux

\* tasks.py 347-379: the last checkpoint writes COMPLETED, and the task returns.
Complete(r) ==
    /\ run[r].pc = "complete"
    /\ \E ch \in SinkChoices("meta_first") :
         LET c == CheckpointResult(r, "meta_first", COMPLETED, 100,
                      MsgComplete, "Episode complete", "", ch[1], ch[2])
         IN  /\ ep' = c.ep
             /\ jobMeta' = c.meta
             /\ stale' = (stale /\ ~c.committed)
             /\ faults' = faults + SinkFaults(ch[1], ch[2])
             /\ run' = [run EXCEPT ![r] =
                    [AfterCheckpoint(@, c, COMPLETED, 100, "cleanup", "failed")
                        EXCEPT !.outcome = IF c.err = "" THEN "returned" ELSE @]]
    /\ UNCHANGED <<chunkRows, indexPoints, segDir, segFiles, podcastFile, coverFile,
                   generate_cover, env, deliveries>>
    /\ UNCHANGED aux

\* A failure handler that writes FAILED and leaves the progress where it was.
Failed_keeps_progress(r) ==
    /\ run[r].pc = "failed"
    /\ \E db \in DbOutcomes :
         /\ faults + SinkFaults(db, TRUE) <= FaultBudget
         /\ LET w == update_episode_status(ep, "null", db, FAILED, ep.progress, MsgFailed, run[r].err)
            IN  /\ ep' = w.ep
                /\ stale' = (stale /\ ~w.committed)
                /\ faults' = faults + SinkFaults(db, TRUE)
                /\ run' = [run EXCEPT ![r] =
                       [@ EXCEPT !.pc = "cleanup", !.pending = "null",
                                 !.outcome = "raised",
                                 !.finalWrite = FAILED, !.finalWritten = w.committed,
                                 !.retries = IF w.retries > @ THEN w.retries ELSE @]]
    /\ UNCHANGED <<chunkRows, indexPoints, jobMeta, segDir, segFiles, podcastFile,
                   coverFile, generate_cover, env, deliveries>>
    /\ UNCHANGED aux

\* tasks.py 381-414, the handler of the outer try: rollback, the FAILED write
\* with str(e) as the error, and the exception is raised again.
Failed(r) ==
    /\ run[r].pc = "failed"
    /\ \E db \in DbOutcomes :
         /\ faults + SinkFaults(db, TRUE) <= FaultBudget
         /\ LET w == update_episode_status(ep, "null", db, FAILED, 0, MsgFailed, run[r].err)
            IN  /\ ep' = w.ep
                /\ stale' = (stale /\ ~w.committed)
                /\ faults' = faults + SinkFaults(db, TRUE)
                /\ run' = [run EXCEPT ![r] =
                       [@ EXCEPT !.pc = "cleanup", !.pending = "null",
                                 !.outcome = "raised",
                                 !.finalWrite = FAILED, !.finalWritten = w.committed,
                                 !.retries = IF w.retries > @ THEN w.retries ELSE @]]
    /\ UNCHANGED <<chunkRows, indexPoints, jobMeta, segDir, segFiles, podcastFile,
                   coverFile, generate_cover, env, deliveries>>
    /\ UNCHANGED aux

\* tasks.py 416-460, the finally block: the segments directory is removed when
\* the block's imports succeed and rmtree does; any failure there is only logged.
Cleanup(r) ==
    /\ run[r].pc = "cleanup"
    /\ \E ok \in BOOLEAN :
         /\ segDir' = IF ok THEN FALSE ELSE segDir
         /\ segFiles' = IF ok THEN {} ELSE segFiles
         /\ run' = [run EXCEPT ![r] = [@ EXCEPT !.pc = "exited", !.cleaned = ok]]
    /\ UNCHANGED <<ep, stale, chunkRows, indexPoints, jobMeta, podcastFile, coverFile,
                   generate_cover, env, faults, deliveries>>
    /\ UNCHANGED aux

\* The worker process dies in the middle of a run (out of memory, a kill, the
\* job timeout): nothing of the task runs any more, its finally block included.
Crash(r) ==
    /\ Active(r)
    /\ run[r].pc # "start"
    /\ run' = [run EXCEPT ![r] = [@ EXCEPT !.pc = "exited", !.outcome = "crashed"]]
    /\ UNCHANGED <<shared, generate_cover, env, faults, deliveries>>
    /\ UNCHANGED aux

\* Two hours pass without a write to the row. A job runs for an hour at most
\* (JOB_TIMEOUT), so no run is under way then.
Tick ==
    /\ ~stale
    /\ ep.status \in {PENDING, PROCESSING}
    /\ \A r \in Workers : ~Active(r)
    /\ stale' = TRUE
    /\ UNCHANGED <<ep, chunkRows, indexPoints, jobMeta, segDir, segFiles, podcastFile,
                   coverFile, generate_cover, env, faults, deliveries, run>>
    /\ UNCHANGED aux

\* worker.py 23-62, cleanup_abandoned_jobs: a PENDING or PROCESSING episode not
\* updated since the cutoff is marked FAILED; its progress is left as it is.
cleanup_abandoned_jobs ==
    /\ ep.status \in {PENDING, PROCESSING}
    /\ stale
    /\ ep' = [ep EXCEPT !.status = FAILED,
                        !.error_message = ErrAbandoned,
                        !.status_message = MsgInterrupted]
    /\ stale' = FALSE
    /\ UNCHANGED <<chunkRows, indexPoints, jobMeta, segDir, segFiles, podcastFile,
                   coverFile, generate_cover, env, faults, deliveries, run>>
    /\ UNCHANGED aux

\* The steps process_episode_task takes by itself once a worker runs it.
TaskStep(r) ==
    \/ Start(r) \/ Checkpoint(r) \/ Extract(r) \/ Chunk(r)
    \/ Script(r) \/ TtsStart(r) \/ TtsSegment(r) \/ Mix(r) \/ AudioFailed(r)
    \/ Transcript(r) \/ Cover(r) \/ CoverFailed(r) \/ Complete(r) \/ Failed(r)
    \/ Cleanup(r)

RunStep(r) == Deliver(r) \/ TaskStep(r) \/ Crash(r)

Next == (\E r \in Workers : RunStep(r)) \/ Tick \/ cleanup_abandoned_jobs

\* Runs one after the other (one worker, one job at a time), reliable sinks.
Spec == Init /\ [][Next]_vars

\* One run whose status writes and job-metadata saves can fail.
SpecSinks == InitSinks /\ [][Next]_vars

\* Two deliveries that may overlap (a duplicate delivery to a second worker),
\* on workers that stay up.
NextOverlap == \E r \in Workers : Deliver(r) \/ TaskStep(r)

SpecOverlap == InitOverlap /\ [][NextOverlap]_vars

\* One run during which memory may rise above the marks at any sample.
SpecGuards == InitGuards /\ [][Next]_vars

\* One delivery under the scheduling the code gives: a worker that holds the job
\* keeps executing it, and time passes. cleanup_abandoned_jobs is called only
\* when run_worker starts (worker.py 115) and in its two exception handlers
\* (124, 128); worker.work() never calls it, so no sweep is ever due while the
\* worker stays up, and the sweep gets no fairness. Nor does a crash.
SpecLive ==
    /\ InitOnce
    /\ [][Next]_vars
    /\ WF_vars(\E r \in Workers : TaskStep(r))
    /\ WF_vars(Tick)


\* ---------------------------------------------------------- create_episode

\* episodes.py 48, 67.
MsgQueued == "Episode created, queued for processing"
MsgQueueUnavailable == "Episode created, but job queue unavailable"

\* episodes.py 37-54: the row is added with PENDING, 0 and the 'queued' message,
\* and committed; the job is not enqueued yet.
InitCreate ==
    /\ ep = [InitEpisode EXCEPT !.status_message = MsgQueued]
    /\ api = [pc |-> "committed", queued |-> FALSE, status_message |-> MsgQueued]
    /\ InitStores
    /\ env = [overlap |-> FALSE, redelivery |-> FALSE, sinkFaults |-> FALSE,
              pressure |-> FALSE]
    /\ tts = Idle
    /\ mixer = Idle
    /\ chunker = Idle
    /\ vstore = Idle
    /\ voices = Idle
    /\ llm = Idle

\* episodes.py 56-68 and core/redis.py 54-66: enqueue_job puts the job on the
\* queue, from where a worker may take it at once, or raises; either way the
\* request sets a new status_message on its session's object, not yet committed.
create_episode_enqueue ==
    /\ api.pc = "committed"
    /\ \E ok \in BOOLEAN :
         api' = [pc |-> "enqueued", queued |-> ok,
                 status_message |-> IF ok THEN MsgCreated ELSE MsgQueueUnavailable]
    /\ UNCHANGED <<pipeline, tts, mixer, chunker, vstore, voices, llm>>

\* episodes.py 70-71: the commit writes the attributes the request changed since
\* its last commit (job_id, status_message) to the row as it is by then.
create_episode_commit ==
    /\ api.pc = "enqueued"
    /\ ep' = [ep EXCEPT !.status_message = api.status_message]
    /\ stale' = FALSE
    /\ api' = [api EXCEPT !.pc = "done"]
    /\ UNCHANGED <<chunkRows, indexPoints, jobMeta, segDir, segFiles, podcastFile,
                   coverFile, generate_cover, env, faults, deliveries, run>>
    /\ UNCHANGED <<tts, mixer, chunker, vstore, voices, llm>>

\* The job is taken from the queue once enqueue_job has put it there.
Dequeue(r) == api.queued /\ Deliver(r)

NextCreate ==
    \/ create_episode_enqueue
    \/ create_episode_commit
    \/ \E r \in Workers : Dequeue(r) \/ TaskStep(r)

\* One create_episode request and the run of the job it enqueues.
SpecCreate == InitCreate /\ [][NextCreate]_vars


\* ------------------------------------- APITTSService.synthesize_segments

\* tts_api.py 421.
max_retries == 3

\* The text of a segment, as far as line 390 tells: blank or not.
SegmentKinds == {"text", "blank"}

SegmentLists == UNION {[1..n -> SegmentKinds] : n \in 0..MaxSegments}

\* What one call of self.synthesize does: it writes the file, or raises an error
\* whose text has a timeout / rate-limit signature, or raises another error.
BackendOutcomes == {"ok", "timeout", "error"}

\* tts_api.py 450: "timeout", "timed out", "429" or "rate limit" in str(e).lower().
IsTransient(e) == e = "timeout"

\* A retry loop that goes on after any failure.
RetryAfter_any(e, attempt) == attempt < max_retries - 1

\* tts_api.py 450-461: continue after a transient error that is not the last
\* attempt; the loop ends otherwise (break, or the range is used up).
RetryAfter(e, attempt) == IsTransient(e) /\ attempt < max_retries - 1

InitTts ==
    /\ InitPipeline
    /\ generate_cover
    /\ env = [overlap |-> FALSE, redelivery |-> FALSE, sinkFaults |-> FALSE,
              pressure |-> FALSE]
    /\ mixer = [pc |-> "idle"]
    /\ chunker = Idle
    /\ vstore = Idle
    /\ voices = Idle
    /\ llm = Idle
    /\ \E segments \in SegmentLists :
         tts = [pc |-> "loop", segments |-> segments, i |-> 0, attempt |-> 0,
                last_error |-> "none", results |-> <<>>,
                calls |-> [k \in 0..(Len(segments) - 1) |-> <<>>]]

\* tts_api.py 386-391 and 420-422: the next segment, blank ones skipped.
SynthNextSegment ==
    /\ tts.pc = "loop"
    /\ tts' = IF tts.i = Len(tts.segments) THEN [tts EXCEPT !.pc = "finish"]
              ELSE IF tts.segments[tts.i + 1] = "blank" THEN [tts EXCEPT !.i = @ + 1]
              ELSE [tts EXCEPT !.pc = "attempt", !.attempt = 0, !.last_error = "none"]
    /\ UNCHANGED <<pipeline, mixer, chunker, vstore, voices, llm, api>>

\* tts_api.py 424-461: one pass of the retry loop. calls[i] lists what the
\* backend did at each call made for segment i.
SynthAttempt ==
    /\ tts.pc = "attempt"
    /\ \E out \in BackendOutcomes :
         LET called == [tts EXCEPT !.calls[tts.i] = Append(@, out)]
         IN  tts' = IF out = "ok"
                    THEN [called EXCEPT !.pc = "collect",
                              !.results = Append(@, [index |-> tts.i, audio_path |-> "file"])]
                    ELSE IF RetryAfter(out, tts.attempt)
                    THEN [called EXCEPT !.last_error = out, !.attempt = @ + 1]
                    ELSE [called EXCEPT !.last_error = out, !.pc = "collect"]
    /\ UNCHANGED <<pipeline, mixer, chunker, vstore, voices, llm, api>>

\* tts_api.py 463-471: the entry with a null path, added when last_error is set
\* and len(results) <= i.
SynthCollect ==
    /\ tts.pc = "collect"
    /\ tts' = [tts EXCEPT
           !.pc = "loop",
           !.i = @ + 1,
           !.results = IF tts.last_error # "none" /\ Len(tts.results) <= tts.i
                       THEN Append(@, [index |-> tts.i, audio_path |-> "null"])
                       ELSE @]
    /\ UNCHANGED <<pipeline, mixer, chunker, vstore, voices, llm, api>>

\* tts_api.py 473-483: RuntimeError when no entry has an audio path.
SynthFinish ==
    /\ tts.pc = "finish"
    /\ LET successful == Cardinality({k \in 1..Len(tts.results) :
                                        tts.results[k].audio_path # "null"})
       IN  tts' = [tts EXCEPT !.pc = IF successful = 0 THEN "raised" ELSE "returned"]
    /\ UNCHANGED <<pipeline, mixer, chunker, vstore, voices, llm, api>>

NextTts == SynthNextSegment \/ SynthAttempt \/ SynthCollect \/ SynthFinish

\* One call of synthesize_segments on any list of up to MaxSegments segments.
SpecTts == InitTts /\ [][NextTts]_vars

\* ------------------------------------------------------- AudioMixer.mix

\* segment.get("audio_path") as the mixer sees it: None, the path of a file
\* that is not there, or the path of a file that is (and decodes).
PathKinds == {"null", "missing", "file"}

MixerInputs == UNION {[1..n -> PathKinds] : n \in 1..MaxSegments}

\* Lengths in milliseconds of the audio files a call can meet, and the values of
\* pause_between_segments (audio_mixer.py 38; mix_audio_sync passes 400).
SegmentDurations == {1000, 2000}

Pauses == {0, 400}

\* AudioSegment.silent(duration=1000) that opens the in-memory track (line 67)
\* and AudioSegment.silent(duration=500) that closes it (line 121).
lead_silence_ms == 1000

tail_silence_ms == 500

\* Sum of the lengths of the files at the given positions.
RECURSIVE SumDurations(_, _)
SumDurations(positions, durations) ==
    IF positions = <<>> THEN 0
    ELSE durations[Head(positions)] + SumDurations(Tail(positions), durations)

\* audio_mixer.py 94-97 and 208-211: the segments that are added, by position in
\* the input; one is skipped when its path is None or no file is at the path.
RECURSIVE AddSegments(_, _, _)
AddSegments(segments, k, added) ==
    IF k > Len(segments) THEN added
    ELSE IF segments[k] # "file" THEN AddSegments(segments, k + 1, added)
    ELSE AddSegments(segments, k + 1, Append(added, k))

\* The concat run of ffmpeg (audio_mixer.py 240-263, check=True): the concat
\* demuxer rejects a list without any file entry, and subprocess.run raises.
ffmpeg_concat(list) == IF list = <<>> THEN "CalledProcessError" ELSE "ok"

\* AudioMixer._mix_with_ffmpeg, audio_mixer.py 166-292, without intro, outro or
\* background music (mix_audio_sync passes none).
\* The concat list holds the pause file before every added segment but the
\* first (213-215), so the file ffmpeg writes lasts the sum of the segments
\* plus one pause between neighbours; total_duration adds up only what ffprobe
\* reports for each segment (221-230) and that sum is returned (281-282).
mix_with_ffmpeg(segments, durations, pause) ==
    LET list == AddSegments(segments, 1, <<>>)
        total_duration == SumDurations(list, durations)
    IN  IF ffmpeg_concat(list) # "ok"
        THEN [raised |-> TRUE, track |-> <<>>, segments_count |-> 0,
              duration_ms |-> 0, track_ms |-> 0]
        ELSE [raised |-> FALSE, track |-> list, segments_count |-> Len(list),
              duration_ms |-> total_duration,
              track_ms |-> total_duration + (Len(list) - 1) * pause]

\* The pydub path of AudioMixer.mix, audio_mixer.py 92-164.
\* combined starts as one second of silence (67), grows by pause + segment for
\* every added segment (102), then by half a second of silence that is faded
\* out (121-122); duration_ms is len(combined) (140).
mix_in_memory(segments, durations, pause) ==
    LET combined == AddSegments(segments, 1, <<>>)
        length == lead_silence_ms + Len(combined) * pause
                  + SumDurations(combined, durations) + tail_silence_ms
    IN  [raised |-> FALSE, track |-> combined, segments_count |-> Len(combined),
         duration_ms |-> length, track_ms |-> length]

\* AudioMixer.mix, audio_mixer.py 30-164: RuntimeError without pydub (55-56),
\* the ffmpeg path when ffmpeg answers (74-88), the pydub path otherwise.
mix(segments, durations, pause, pydub, use_ffmpeg) ==
    IF ~pydub THEN [raised |-> TRUE, track |-> <<>>, segments_count |-> 0,
                    duration_ms |-> 0, track_ms |-> 0]
    ELSE IF use_ffmpeg THEN mix_with_ffmpeg(segments, durations, pause)
    ELSE mix_in_memory(segments, durations, pause)

InitMixer ==
    /\ InitPipeline
    /\ generate_cover
    /\ env = [overlap |-> FALSE, redelivery |-> FALSE, sinkFaults |-> FALSE,
              pressure |-> FALSE]
    /\ tts = [pc |-> "idle"]
    /\ chunker = Idle
    /\ vstore = Idle
    /\ voices = Idle
    /\ llm = Idle
    /\ \E segments \in MixerInputs, pydub \in BOOLEAN, use_ffmpeg \in BOOLEAN,
          pause \in Pauses :
         \E durations \in [1..Len(segments) -> SegmentDurations] :
           mixer = [pc |-> "called", segments |-> segments,
                    durations |-> durations, pause |-> pause, pydub |-> pydub,
                    use_ffmpeg |-> use_ffmpeg,
                    result |-> [raised |-> FALSE, track |-> <<>>,
                                segments_count |-> 0, duration_ms |-> 0,
                                track_ms |-> 0]]

AudioMixer_mix ==
    /\ mixer.pc = "called"
    /\ mixer' = [mixer EXCEPT
           !.pc = "done",
           !.result = mix(mixer.segments, mixer.durations, mixer.pause,
                          mixer.pydub, mixer.use_ffmpeg)]
    /\ UNCHANGED <<pipeline, tts, chunker, vstore, voices, llm, api>>

NextMixer == AudioMixer_mix

\* One call of AudioMixer.mix on any list of up to MaxSegments segments.
SpecMixer == InitMixer /\ [][NextMixer]_vars

\* ------------------------------------------------------ TextChunker.chunk

\* Longest text, in sentences, handed to TextChunker.chunk.
MaxSentences == 3

\* A word of a cleaned text (chunker.py 85-91: single spaces, no characters
\* outside the whitelist): its letters and the run of '.', '!' or '?' that ends it.
Word(stem, punct) == [stem |-> stem, punct |-> punct]

\* chunker.py 97, each without its period.
abbreviations ==
    {"Mr", "Mrs", "Ms", "Dr", "Prof", "Sr", "Jr", "vs", "etc", "Inc", "Ltd", "Corp"}

IsAbbreviation_never(w) == FALSE

\* chunker.py 99-100: the period of a listed abbreviation is replaced by <DOT>.
IsAbbreviation(w) == w.punct >= 1 /\ w.stem \in abbreviations

\* The word as the split of line 103 sees it: kept counts the period hidden
\* behind <DOT>, punct the run of terminal punctuation still visible.
protect(w) ==
    IF IsAbbreviation(w)
    THEN [stem |-> w.stem, kept |-> 1, punct |-> w.punct - 1]
    ELSE [stem |-> w.stem, kept |-> 0, punct |-> w.punct]

\* chunker.py 93-111: a boundary is a run of terminal punctuation followed by
\* white space, and the run is removed; the last word of the text is followed
\* by nothing and keeps its punctuation. A sentence is the sequence of its
\* words, each with the number tail of punctuation characters it retains.
RECURSIVE SplitFrom(_, _, _, _)
SplitFrom(text, i, cur, out) ==
    IF i > Len(text) THEN (IF cur = <<>> THEN out ELSE Append(out, cur))
    ELSE LET p == protect(text[i])
         IN  IF i < Len(text) /\ p.punct >= 1
             THEN SplitFrom(text, i + 1, <<>>,
                            Append(out, Append(cur, [stem |-> p.stem, tail |-> p.kept])))
             ELSE SplitFrom(text, i + 1,
                            Append(cur, [stem |-> p.stem, tail |-> p.kept + p.punct]),
                            out)

split_sentences(text) == SplitFrom(text, 1, <<>>, <<>>)

\* chunker.py 189-196.
estimate_tokens(len) ==
    IF len = 0 THEN 0 ELSE IF len \div 4 < 1 THEN 1 ELSE len \div 4

\* An entry of current_chunk or temp_chunk: words a..b of sentence s (a whole
\* sentence at 162 and 159, one word at 140 and 143).
Unit(s, a, b) == [s |-> s, a |-> a, b |-> b]

WholeSentence(sentences, s) == Unit(s, 1, Len(sentences[s]))

WordLen(w) == Len(w.stem) + w.tail

\* Characters of words a..b of a sentence, single spaces between them.
RECURSIVE WordsLen(_, _, _)
WordsLen(sentence, a, b) ==
    IF a > b THEN 0
    ELSE WordLen(sentence[a]) + (IF a < b THEN 1 ELSE 0) + WordsLen(sentence, a + 1, b)

UnitLen(sentences, u) == WordsLen(sentences[u.s], u.a, u.b)

UnitTokens(sentences, u) == estimate_tokens(UnitLen(sentences, u))

\* len(' '.join(entries)), chunker.py 126, 139, 155, 167.
RECURSIVE JoinLen(_, _)
JoinLen(sentences, units) ==
    IF units = <<>> THEN 0
    ELSE UnitLen(sentences, Head(units))
         + (IF Len(units) > 1 THEN 1 ELSE 0) + JoinLen(sentences, Tail(units))

\* chunker.py 70: the token estimate of the chunk's text.
ChunkTokens(sentences, units) == estimate_tokens(JoinLen(sentences, units))

\* chunker.py 160: the sum of the estimates of the entries.
RECURSIVE SumTokens(_, _)
SumTokens(sentences, units) ==
    IF units = <<>> THEN 0
    ELSE UnitTokens(sentences, Head(units)) + SumTokens(sentences, Tail(units))

\* chunker.py 171-187: entries are taken from the end until the next one would
\* pass chunk_overlap.
RECURSIVE OverlapFrom(_, _, _, _, _, _)
OverlapFrom(sentences, chunk, i, overlap_tokens, overlap_sentences, chunk_overlap) ==
    IF i = 0 THEN overlap_sentences
    ELSE LET sentence_tokens == UnitTokens(sentences, chunk[i])
         IN  IF overlap_tokens + sentence_tokens > chunk_overlap
             THEN overlap_sentences
             ELSE OverlapFrom(sentences, chunk, i - 1,
                              overlap_tokens + sentence_tokens,
                              <<chunk[i]>> \o overlap_sentences, chunk_overlap)

get_overlap_sentences_head(sentences, chunk, chunk_overlap) ==
    IF chunk = <<>> \/ UnitTokens(sentences, chunk[1]) > chunk_overlap
    THEN <<>> ELSE <<chunk[1]>>

get_overlap_sentences(sentences, chunk, chunk_overlap) ==
    OverlapFrom(sentences, chunk, Len(chunk), 0, <<>>, chunk_overlap)

\* chunker.py 131-144: the word loop of the forced split.
RECURSIVE SplitWords(_, _, _, _, _, _, _)
SplitWords(sentences, s, w, temp_chunk, temp_tokens, pieces, chunk_size) ==
    IF w > Len(sentences[s])
    THEN [pieces |-> pieces, temp_chunk |-> temp_chunk, temp_tokens |-> temp_tokens]
    ELSE LET word == Unit(s, w, w)
             word_tokens == UnitTokens(sentences, word) + 1
         IN  IF temp_tokens + word_tokens > chunk_size
             THEN SplitWords(sentences, s, w + 1, <<word>>, word_tokens,
                             IF temp_chunk # <<>> THEN Append(pieces, temp_chunk)
                             ELSE pieces,
                             chunk_size)
             ELSE SplitWords(sentences, s, w + 1, Append(temp_chunk, word),
                             temp_tokens + word_tokens, pieces, chunk_size)

\* chunker.py 67-83: the grouped chunks at or above min_chunk_size, each with
\* its position i in the grouped list as index.
RECURSIVE EmitFrom(_, _, _, _, _)
EmitFrom(sentences, chunks, i, min_chunk_size, result) ==
    IF i >= Len(chunks) THEN result
    ELSE LET token_count == ChunkTokens(sentences, chunks[i + 1])
         IN  EmitFrom(sentences, chunks, i + 1, min_chunk_size,
                      IF token_count >= min_chunk_size
                      THEN Append(result, [content |-> chunks[i + 1], index |-> i,
                                           token_count |-> token_count])
                      ELSE result)

\* The sentences the texts are built of.
SentenceShapes ==
    { <<Word("Dr", 1), Word("Smith", 0), Word("arrived", 1)>>,
      <<Word("Hi", 1)>>,
      <<Word("Goodbye", 1)>>,
      <<Word("Seven", 0), Word("birds", 0), Word("watch", 0), Word("stars", 1)>>,
      <<Word("Pneumonoultramicroscopic", 1)>> }

RECURSIVE Flatten(_)
Flatten(seqs) == IF seqs = <<>> THEN <<>> ELSE Head(seqs) \o Flatten(Tail(seqs))

\* 'Dr. Smith arrived. He said hello. It was a beautiful day in the city and
\* everyone smiled warmly at the bright morning sun.'
ExampleText ==
    <<Word("Dr", 1), Word("Smith", 0), Word("arrived", 1),
      Word("He", 0), Word("said", 0), Word("hello", 1),
      Word("It", 0), Word("was", 0), Word("a", 0), Word("beautiful", 0),
      Word("day", 0), Word("in", 0), Word("the", 0), Word("city", 0),
      Word("and", 0), Word("everyone", 0), Word("smiled", 0), Word("warmly", 0),
      Word("at", 0), Word("the", 0), Word("bright", 0), Word("morning", 0),
      Word("sun", 1)>>

ChunkerTexts ==
    {Flatten(ss) : ss \in UNION {[1..n -> SentenceShapes] : n \in 0..MaxSentences}}
    \cup {ExampleText}

\* chunk_size, chunk_overlap and min_chunk_size of the constructor (24-40),
\* scaled down to the lengths of the texts; the overlap is below the size.
ChunkerParams ==
    {p \in [chunk_size : {2, 4, 12}, chunk_overlap : {1, 2, 4},
            min_chunk_size : {1, 2}] : p.chunk_overlap < p.chunk_size}

InitChunker ==
    /\ InitPipeline
    /\ generate_cover
    /\ env = [overlap |-> FALSE, redelivery |-> FALSE, sinkFaults |-> FALSE,
              pressure |-> FALSE]
    /\ tts = Idle
    /\ mixer = Idle
    /\ vstore = Idle
    /\ voices = Idle
    /\ llm = Idle
    /\ \E text \in ChunkerTexts, p \in ChunkerParams :
         chunker = [pc |-> "called", text |-> text, chunk_size |-> p.chunk_size,
                    chunk_overlap |-> p.chunk_overlap,
                    min_chunk_size |-> p.min_chunk_size,
                    sentences |-> <<>>, k |-> 1, chunks |-> <<>>,
                    current_chunk |-> <<>>, current_tokens |-> 0,
                    result |-> <<>>,
                    step |-> "none", prev_chunk |-> <<>>, prev_count |-> 0]

\* chunker.py 53-62: an empty text returns []; otherwise the text is split.
ChunkSplit ==
    /\ chunker.pc = "called"
    /\ chunker' = IF chunker.text = <<>>
                  THEN [chunker EXCEPT !.pc = "done"]
                  ELSE [chunker EXCEPT !.pc = "group",
                                       !.sentences = split_sentences(chunker.text)]
    /\ UNCHANGED <<pipeline, tts, mixer, vstore, voices, llm, api>>

\* The sentence of the current iteration of the loop at chunker.py 119.
InLoop == chunker.pc = "group" /\ chunker.k <= Len(chunker.sentences)

sentence_tokens == UnitTokens(chunker.sentences, WholeSentence(chunker.sentences, chunker.k))

\* What every iteration records of the state it started from.
Iteration(kind) ==
    [chunker EXCEPT !.k = @ + 1, !.step = kind,
                    !.prev_chunk = chunker.current_chunk,
                    !.prev_count = Len(chunker.chunks)]

\* chunker.py 122-149: a sentence above chunk_size.
GroupForcedSplit ==
    /\ InLoop
    /\ sentence_tokens > chunker.chunk_size
    /\ LET flushed == IF chunker.current_chunk # <<>>
                      THEN Append(chunker.chunks, chunker.current_chunk)
                      ELSE chunker.chunks
           r == SplitWords(chunker.sentences, chunker.k, 1, <<>>, 0, <<>>,
                           chunker.chunk_size)
       IN  chunker' = [Iteration("split") EXCEPT
               !.chunks = flushed \o r.pieces,
               !.current_chunk = r.temp_chunk,
               !.current_tokens = IF r.temp_chunk # <<>> THEN r.temp_tokens ELSE 0]
    /\ UNCHANGED <<pipeline, tts, mixer, vstore, voices, llm, api>>

\* chunker.py 151-160: the sentence does not fit into the current chunk.
GroupOverlap ==
    /\ InLoop
    /\ sentence_tokens <= chunker.chunk_size
    /\ chunker.current_tokens + sentence_tokens > chunker.chunk_size
    /\ LET overlap_sentences ==
               get_overlap_sentences(chunker.sentences, chunker.current_chunk,
                                     chunker.chunk_overlap)
           next_chunk ==
               overlap_sentences \o <<WholeSentence(chunker.sentences, chunker.k)>>
       IN  chunker' = [Iteration("overlap") EXCEPT
               !.chunks = IF chunker.current_chunk # <<>>
                          THEN Append(@, chunker.current_chunk) ELSE @,
               !.current_chunk = next_chunk,
               !.current_tokens = SumTokens(chunker.sentences, next_chunk)]
    /\ UNCHANGED <<pipeline, tts, mixer, vstore, voices, llm, api>>

\* chunker.py 161-163.
GroupAppend ==
    /\ InLoop
    /\ sentence_tokens <= chunker.chunk_size
    /\ chunker.current_tokens + sentence_tokens <= chunker.chunk_size
    /\ chunker' = [Iteration("append") EXCEPT
           !.current_chunk = Append(@, WholeSentence(chunker.sentences, chunker.k)),
           !.current_tokens = @ + sentence_tokens]
    /\ UNCHANGED <<pipeline, tts, mixer, vstore, voices, llm, api>>

\* chunker.py 165-169.
GroupFlush ==
    /\ chunker.pc = "group"
    /\ chunker.k > Len(chunker.sentences)
    /\ chunker' = [chunker EXCEPT
           !.pc = "emit",
           !.chunks = IF chunker.current_chunk # <<>>
                      THEN Append(@, chunker.current_chunk) ELSE @]
    /\ UNCHANGED <<pipeline, tts, mixer, vstore, voices, llm, api>>

\* chunker.py 67-83.
ChunkEmit ==
    /\ chunker.pc = "emit"
    /\ chunker' = [chunker EXCEPT
           !.pc = "done",
           !.result = EmitFrom(chunker.sentences, chunker.chunks, 0,
                               chunker.min_chunk_size, <<>>)]
    /\ UNCHANGED <<pipeline, tts, mixer, vstore, voices, llm, api>>

NextChunker ==
    \/ ChunkSplit
    \/ GroupForcedSplit
    \/ GroupOverlap
    \/ GroupAppend
    \/ GroupFlush
    \/ ChunkEmit

\* One call of TextChunker.chunk on a cleaned text of up to MaxSentences sentences.
SpecChunker == InitChunker /\ [][NextChunker]_vars

\* ------------------------------------- VectorStore.add, get_episode_chunks

\* Points the collection can hold.
MaxPoints == 4

\* The episodes whose runs share the collection.
Episodes == {"e1", "e2"}

\* limit of the scroll: 20 from ScriptGenerator.generate (script_generator.py
\* 80), and 1 as a limit below the number of an episode's points.
ScrollLimits == {1, 20}

\* The chunk indices of one call of chunk_content_sync, in the order of the
\* chunker's result (tasks.py 512-520): ascending, not necessarily gap-free.
RECURSIVE Ascending(_)
Ascending(indices) ==
    IF indices = {} THEN <<>>
    ELSE LET lo == CHOOSE c \in indices : \A d \in indices : c <= d
         IN  <<lo>> \o Ascending(indices \ {lo})

PointIds == 1..MaxPoints

MatchesFilter_any(point, episode_id) == TRUE

\* vector_store.py 243-250: must match payload episode_id = episode_id.
MatchesFilter(point, episode_id) == point.payload.episode_id = episode_id

\* The points of a scroll result in the order of their ids.
RECURSIVE ById(_)
ById(points) ==
    IF points = {} THEN <<>>
    ELSE LET first == CHOOSE p \in points : \A q \in points : p.id <= q.id
         IN  <<first>> \o ById(points \ {first})

\* list.sort(key=chunk_index), vector_store.py 263: stable, ascending.
RECURSIVE InsertByIndex(_, _)
InsertByIndex(sorted, chunk) ==
    IF sorted = <<>> THEN <<chunk>>
    ELSE IF sorted[Len(sorted)].chunk_index <= chunk.chunk_index
         THEN Append(sorted, chunk)
         ELSE Append(InsertByIndex(SubSeq(sorted, 1, Len(sorted) - 1), chunk),
                     sorted[Len(sorted)])

RECURSIVE SortByIndex(_, _)
SortByIndex(chunks, sorted) ==
    IF chunks = <<>> THEN sorted
    ELSE SortByIndex(Tail(chunks), InsertByIndex(sorted, Head(chunks)))

\* vector_store.py 254-265: one entry per returned point, then the sort.
get_episode_chunks(results) ==
    SortByIndex([k \in 1..Len(results) |->
                    [id |-> results[k].id,
                     chunk_index |-> results[k].payload.chunk_index,
                     metadata |-> results[k].payload]],
                <<>>)

InitStore ==
    /\ InitPipeline
    /\ generate_cover
    /\ env = [overlap |-> FALSE, redelivery |-> FALSE, sinkFaults |-> FALSE,
              pressure |-> FALSE]
    /\ tts = Idle
    /\ mixer = Idle
    /\ chunker = Idle
    /\ voices = Idle
    /\ llm = Idle
    /\ vstore = [pc |-> "open", points |-> {}, asked |-> "none", result |-> <<>>]

\* VectorStore.add as chunk_content_sync of episode e calls it (tasks.py
\* 512-524, vector_store.py 73-122): one upsert of a point per chunk, each
\* with a fresh uuid4 as id and the payload episode_id = e, chunk_index.
\* by is the episode whose run made the call.
StoreAdd(e, indices) ==
    /\ vstore.pc = "open"
    /\ indices # {}
    /\ LET batch == Ascending(indices)
           free == PointIds \ {p.id : p \in vstore.points}
       IN  /\ Len(batch) <= Cardinality(free)
           /\ \E ids \in [1..Len(batch) -> free] :
                /\ \A k, l \in 1..Len(batch) : k # l => ids[k] # ids[l]
                /\ vstore' = [vstore EXCEPT !.points = @ \cup
                       {[id |-> ids[k], by |-> e,
                         payload |-> [episode_id |-> e, chunk_index |-> batch[k]]]
                        : k \in 1..Len(batch)}]
    /\ UNCHANGED <<pipeline, tts, mixer, chunker, voices, llm, api>>

\* VectorStore.get_episode_chunks (vector_store.py 226-265): the scroll
\* returns up to limit of the points that match the filter, whichever the
\* order of the ids makes the first ones.
StoreLookup(e, limit) ==
    /\ vstore.pc = "open"
    /\ LET matching == {p \in vstore.points : MatchesFilter(p, e)}
       IN  \E results \in SUBSET matching :
             /\ Cardinality(results)
                  = (IF Cardinality(matching) < limit THEN Cardinality(matching)
                     ELSE limit)
             /\ vstore' = [vstore EXCEPT !.asked = e,
                                         !.result = get_episode_chunks(ById(results))]
    /\ UNCHANGED <<pipeline, tts, mixer, chunker, voices, llm, api>>

NextStore ==
    \/ \E e \in Episodes, indices \in SUBSET ChunkIdx : StoreAdd(e, indices)
    \/ \E e \in Episodes, limit \in ScrollLimits : StoreLookup(e, limit)

\* Adds and lookups of two episodes on one collection, in any order.
SpecStore == InitStore /\ [][NextStore]_vars

\* ------------------------------------- synthesize_audio_sync: the voices

\* Longest persona list of an episode.
MaxPersonas == 3

\* persona["name"] (absent: "missing") and persona["voice_id"] (absent or
\* null: "none"), schemas/__init__.py 30.
PersonaNames == {"Alex", "Sam", "missing"}

PersonaVoices == {"none", "default_male", "default_female"}

PersonaLists ==
    UNION {[1..n -> [name : PersonaNames, voice_id : PersonaVoices]]
           : n \in 0..MaxPersonas}

\* tasks.py 598: persona.get("name", f"Speaker{i}").
SpeakerName(persona, i) ==
    IF persona.name # "missing" THEN persona.name
    ELSE <<"Speaker0", "Speaker1", "Speaker2", "Speaker3", "Speaker4">>[i + 1]

\* tasks.py 596-601: the loop that fills voice_mapping; a later persona of
\* the same name overwrites the entry.
RECURSIVE BuildVoiceMapping(_, _, _)
BuildVoiceMapping(personas, i, voice_mapping) ==
    IF i >= Len(personas) THEN voice_mapping
    ELSE LET name == SpeakerName(personas[i + 1], i)
             voice_id == IF i % 2 = 0 THEN "default_male" ELSE "default_female"
         IN  BuildVoiceMapping(personas, i + 1, (name :> voice_id) @@ voice_mapping)

\* tts_api.py 393: voice_mapping.get(speaker, "default_male").
VoiceOf(voice_mapping, speaker) ==
    IF speaker \in DOMAIN voice_mapping THEN voice_mapping[speaker]
    ELSE "default_male"

InitVoices ==
    /\ InitPipeline
    /\ generate_cover
    /\ env = [overlap |-> FALSE, redelivery |-> FALSE, sinkFaults |-> FALSE,
              pressure |-> FALSE]
    /\ tts = Idle
    /\ mixer = Idle
    /\ chunker = Idle
    /\ vstore = Idle
    /\ llm = Idle
    /\ \E personas \in PersonaLists :
         voices = [pc |-> "called", personas |-> personas,
                   voice_mapping |-> <<>>, speaker |-> "none", voice_id |-> "none"]

\* tasks.py 594-601.
BuildVoices ==
    /\ voices.pc = "called"
    /\ voices' = [voices EXCEPT
           !.pc = "mapped",
           !.voice_mapping = BuildVoiceMapping(voices.personas, 0, <<>>)]
    /\ UNCHANGED <<pipeline, tts, mixer, chunker, vstore, llm, api>>

\* tts_api.py 393: the voice a segment of this speaker is synthesized with.
LookupVoice(speaker) ==
    /\ voices.pc = "mapped"
    /\ voices' = [voices EXCEPT
           !.pc = "looked", !.speaker = speaker,
           !.voice_id = VoiceOf(voices.voice_mapping, speaker)]
    /\ UNCHANGED <<pipeline, tts, mixer, chunker, vstore, llm, api>>

\* Speaker labels _parse_script can produce (script_generator.py 241:
\* ^([A-Z][A-Za-z]+): a capital letter, then letters), as the script writes them.
SpeakerLabels == {"Alex", "ALEX", "Sam", "SAM", "Narrator"}

NextVoices ==
    \/ BuildVoices
    \/ \E speaker \in SpeakerLabels : LookupVoice(speaker)

\* The voice mapping of one call of synthesize_audio_sync.
SpecVoices == InitVoices /\ [][NextVoices]_vars

\* ------------------------------------------- LLMService._generate_hf

\* max_retries of the hosted-client loop (llm.py 155).
llm_max_retries == 3

LlmAttempts == 0..(llm_max_retries - 1)

\* Keyword groups the handlers look for in the text of an error: "transient"
\* is timeout / timed out / connection / network (214), "rate" is 429 / rate
\* limit (248), "auth" is 401 / unauthorized / token (257), "model" is model /
\* not found (260).
\* What a request thread can end with: a response with or without content, or
\* an exception. kind is what went wrong at the backend; text is the set of
\* keyword groups its message carries, which always include the one of its kind.
BackendErrors ==
    { [class |-> "TimeoutError", kind |-> "timeout", text |-> {"transient"}],
      [class |-> "Exception", kind |-> "connection", text |-> {"transient"}],
      [class |-> "Exception", kind |-> "rate", text |-> {"rate"}],
      [class |-> "Exception", kind |-> "auth", text |-> {"auth"}],
      [class |-> "Exception", kind |-> "auth", text |-> {"auth", "rate"}],
      [class |-> "Exception", kind |-> "model", text |-> {"model"}],
      [class |-> "Exception", kind |-> "model", text |-> {"model", "transient"}],
      [class |-> "Exception", kind |-> "other", text |-> {}] }

ThreadOutcomes ==
    {[type |-> "response", content |-> c] : c \in {"text", "empty"}}
    \cup {[type |-> "error", error |-> e] : e \in BackendErrors}

llm_may_retry_always(attempt) == TRUE

\* attempt < max_retries - 1, llm.py 204, 215, 249, 264.
llm_may_retry(attempt) == attempt < llm_max_retries - 1

\* The handlers of llm.py 203-270 in the order they are tried: "retry" stands
\* for the branch that sleeps and continues when llm_may_retry and raises
\* RuntimeError otherwise, "raise" for the branches that raise at once.
HandleLlmError(e) ==
    IF e.class = "TimeoutError" THEN "retry"
    ELSE IF "transient" \in e.text THEN "retry"
    ELSE IF "rate" \in e.text THEN "retry"
    ELSE IF "auth" \in e.text THEN "raise"
    ELSE IF "model" \in e.text THEN "raise"
    ELSE "retry"

WatchdogTimeout == [class |-> "TimeoutError", kind |-> "watchdog", text |-> {"transient"}]

InitLlm ==
    /\ InitPipeline
    /\ generate_cover
    /\ env = [overlap |-> FALSE, redelivery |-> FALSE, sinkFaults |-> FALSE,
              pressure |-> FALSE]
    /\ tts = Idle
    /\ mixer = Idle
    /\ chunker = Idle
    /\ vstore = Idle
    /\ voices = Idle
    /\ llm = [pc |-> "start", attempt |-> 0,
              threads |-> [t \in LlmAttempts |-> "none"],
              response_queue |-> <<>>, error_queue |-> <<>>,
              calls |-> 0, result |-> "none", result_by |-> -1,
              raised |-> "none", retried_after |-> {}]

\* llm.py 167-184: new queues are bound to response_queue and error_queue and
\* the request thread of this attempt is started.
LlmIssue ==
    /\ llm.pc = "start"
    /\ llm' = [llm EXCEPT !.pc = "join",
                          !.threads[llm.attempt] = "running",
                          !.response_queue = <<>>, !.error_queue = <<>>,
                          !.calls = @ + 1]
    /\ UNCHANGED <<pipeline, tts, mixer, chunker, vstore, voices, api>>

\* llm.py 170-180, make_request in its thread: the request ends and its
\* result is put on the queue that the name response_queue (or error_queue)
\* of the enclosing call is bound to at that moment.
LlmThreadEnds(t, outcome) ==
    /\ llm.threads[t] = "running"
    /\ llm' = [llm EXCEPT
           !.threads[t] = "ended",
           !.response_queue = IF outcome.type = "response"
                              THEN Append(@, [by |-> t, content |-> outcome.content])
                              ELSE @,
           !.error_queue = IF outcome.type = "error"
                           THEN Append(@, [by |-> t, error |-> outcome.error])
                           ELSE @]
    /\ UNCHANGED <<pipeline, tts, mixer, chunker, vstore, voices, api>>

\* The continue of the retry branches, or the RuntimeError they raise on the
\* last attempt; the for loop of line 156 ends when no attempt is left, and
\* the code after it is the direct-HTTP fallback (272).
LlmRetryOrRaise(e) ==
    IF llm_may_retry(llm.attempt)
    THEN [llm EXCEPT !.attempt = @ + 1,
                     !.pc = IF llm.attempt + 1 < llm_max_retries THEN "start"
                            ELSE "fallback",
                     !.retried_after = @ \cup {e}]
    ELSE [llm EXCEPT !.pc = "raised", !.raised = "RuntimeError"]

\* llm.py 185-190 and 203-210: join gave up after 120 seconds with the thread
\* still alive.
LlmWatchdog ==
    /\ llm.pc = "join"
    /\ llm.threads[llm.attempt] = "running"
    /\ llm' = LlmRetryOrRaise(WatchdogTimeout)
    /\ UNCHANGED <<pipeline, tts, mixer, chunker, vstore, voices, api>>

\* llm.py 185-201 and 211-270: the thread of this attempt has ended; the first
\* error on error_queue is raised and handled, or else the first response on
\* response_queue is taken.
LlmJoined ==
    /\ llm.pc = "join"
    /\ llm.threads[llm.attempt] = "ended"
    /\ llm' =
         IF llm.error_queue # <<>>
         THEN LET e == Head(llm.error_queue).error
              IN  IF HandleLlmError(e) = "retry" THEN LlmRetryOrRaise(e)
                  ELSE [llm EXCEPT !.pc = "raised", !.raised = "RuntimeError",
                                   !.error_queue = Tail(@)]
         ELSE IF llm.response_queue = <<>>
         THEN [llm EXCEPT !.pc = "raised", !.raised = "RuntimeError"]
         ELSE LET response == Head(llm.response_queue)
              IN  IF response.content = "empty"
                  THEN [llm EXCEPT !.pc = "raised", !.raised = "RuntimeError",
                                   !.response_queue = Tail(@)]
                  ELSE [llm EXCEPT !.pc = "returned", !.result = response.content,
                                   !.result_by = response.by,
                                   !.response_queue = Tail(@)]
    /\ UNCHANGED <<pipeline, tts, mixer, chunker, vstore, voices, api>>

LlmStep == LlmIssue \/ LlmWatchdog \/ LlmJoined

NextLlm ==
    \/ LlmStep
    \/ \E t \in LlmAttempts, outcome \in ThreadOutcomes : LlmThreadEnds(t, outcome)

\* One call of _generate_hf through the hosted client.
SpecLlm == InitLlm /\ [][NextLlm]_vars

\* The same, where the calling thread is scheduled: thread.join returns after
\* at most 120 seconds (185) and the sleeps are finite (205-207).
SpecLlmLive == SpecLlm /\ WF_vars(LlmStep)

\* ----------------------------------------------------------------- claims

\* A run has ended the way the task can end by itself: it returned or raised.
Ended(r) == run[r].pc \in {"cleanup", "exited"} /\ run[r].outcome \in {"returned", "raised"}

\* What a run is to do given what its stages did (obs), the number n of parsed
\* segments and generate_cover: the stages invoked, how it ends, its last status.
FatalStage(o) ==
    o.mem1 = "high" \/ o.extract = "fail" \/ o.mem2 = "high" \/ o.script = "fail"

ExpectedStages(o, n, gen) ==
    IF o.mem1 = "high" THEN <<>>
    ELSE IF o.extract = "fail" THEN <<"extract">>
    ELSE IF o.mem2 = "high" THEN <<"extract", "chunk">>
    ELSE IF o.script = "fail" THEN <<"extract", "chunk", "script">>
    ELSE <<"extract", "chunk", "script">>
         \o (IF n > 0 THEN <<"tts">> ELSE <<>>)
         \o (IF o.tts = "ok" THEN <<"mix">> ELSE <<>>)
         \o (IF gen THEN <<"cover">> ELSE <<>>)

ExpectedOutcome(o) == IF FatalStage(o) THEN "raised" ELSE "returned"

ExpectedFinal(o) ==
    IF o.mem1 = "high" THEN "none" ELSE IF FatalStage(o) THEN FAILED ELSE COMPLETED

\* C1: on a first run in which extraction and script generation succeed and every
\* speech-synthesis call fails, the episode ends COMPLETED with audio_url null
\* and a final status message that notes that audio is unavailable.
C1_DegradedAudioMessage ==
    \A r \in Workers :
        (deliveries = 1 /\ Ended(r) /\ run[r].outcome = "returned" /\ run[r].obs.tts = "fail")
        => /\ ep.status = COMPLETED
           /\ ep.audio_url = "null"
           /\ ep.status_message = MsgAudioUnavailable

C3_TerminalStatus ==
    [][ep.status \in {COMPLETED, FAILED} => ep'.status = ep.status]_vars

\* C4: every change of the persisted status follows one of the edges PENDING ->
\* PROCESSING, PROCESSING -> COMPLETED, PROCESSING -> FAILED.
AllowedEdges ==
    {<<PENDING, PROCESSING>>, <<PROCESSING, COMPLETED>>, <<PROCESSING, FAILED>>}

C4_StatusEdges ==
    [][ep'.status # ep.status => <<ep.status, ep'.status>> \in AllowedEdges]_vars

\* C5 as stated: while the persisted status is PROCESSING the persisted progress
\* never decreases and lies in 0..100, whichever invocations write it.
C5_ProgressMonotone ==
    [][(ep.status = PROCESSING /\ ep'.status = PROCESSING)
       => (ep'.progress >= ep.progress /\ ep'.progress \in 0..100)]_vars

\* C5 as amended: the progress values one invocation commits with PROCESSING
\* never decrease, every persisted progress lies in 0..100, and a step of a run
\* that changes the persisted progress of a PROCESSING episode leaves that
\* run's own last value in the row.
C5_ProgressMonotonePerRun ==
    [][/\ ep'.progress \in 0..100
       /\ \A r \in Workers :
            /\ (deliveries' = deliveries) => run'[r].lastProg >= run[r].lastProg
            /\ (run'[r] # run[r] /\ ep'.status = PROCESSING
                  /\ ep'.progress # ep.progress)
               => ep'.progress = run'[r].lastProg]_vars

C5_Witness ==
    \E r \in Workers :
        /\ deliveries = 2
        /\ run[r].invoked = <<"extract", "chunk", "script", "tts">>
        /\ run[r].i = 2
        /\ run[r].lastProg = 65
        /\ ep.status = PROCESSING
        /\ ep.progress = 65

\* C6: update_episode_status never raises: a failed status write is swallowed
\* after at most one rollback-and-retry, and the run invokes the stages and ends
\* with the outcome and the last status it would have had with the write
\* committed.
C6_StatusWriteNeverAborts ==
    \A r \in Workers :
        /\ run[r].err # ErrStatusWrite
        /\ run[r].retries <= 1
        /\ (Ended(r) /\ ~run[r].metaFault)
           => /\ run[r].invoked = ExpectedStages(run[r].obs, run[r].n, generate_cover)
              /\ run[r].outcome = ExpectedOutcome(run[r].obs)
              /\ run[r].finalWrite = ExpectedFinal(run[r].obs)

C6_Witness ==
    \E r \in Workers :
        /\ Ended(r)
        /\ run[r].outcome = "returned"
        /\ faults > 0
        /\ ~run[r].metaFault
        /\ run[r].finalWritten
        /\ ep.status = COMPLETED

\* C7: a failure of the job-metadata sink at any checkpoint never aborts the run
\* and never changes the episode's final status.
C7_JobMetaNeverAborts ==
    \A r \in Workers :
        (Ended(r) /\ run[r].metaFault)
        => /\ run[r].outcome = ExpectedOutcome(run[r].obs)
           /\ run[r].finalWrite = ExpectedFinal(run[r].obs)

\* C8: every exception that ends process_episode_task, the one of the memory
\* check at job start included, leaves the episode FAILED with the exception's
\* message as error_message.
C8_EveryExceptionRecorded ==
    \A r \in Workers :
        (Ended(r) /\ run[r].outcome = "raised")
        => /\ ep.status = FAILED
           /\ ep.error_message = run[r].err

\* C9: a re-run after a run that got past chunking stores no chunk index of the
\* episode more than once, in the chunk table or in the retrieval index.
C9_NoDuplicateChunks ==
    \A c \in ChunkIdx : chunkRows[c] <= 1 /\ indexPoints[c] <= 1

\* C10: when an invocation ends (it returned or raised, the memory guard's
\* refusal included) the segments directory does not exist, and the mixed
\* track and the cover, once produced, are still there.
C10_SegmentsRemoved ==
    \A r \in Workers :
        (run[r].pc = "exited" /\ run[r].outcome \in {"returned", "raised"})
        => /\ ~segDir
           /\ (run[r].obs.mix = "ok" => podcastFile)
           /\ (run[r].obs.cover = "ok" => coverFile)


Stages(rr) == {rr.invoked[k] : k \in 1..Len(rr.invoked)}

\* C11: if the memory sample taken just before script generation is above the
\* high-water mark, for the system or for the process, script generation is not
\* invoked in that run, no speech, mixing or cover stage runs, and the run ends
\* with the episode FAILED with the retry-later error.
C11_ScriptGuardFailsFast ==
    \A r \in Workers :
        (run[r].obs.mem2 = "high" \/ run[r].obs.mem2mb = "high")
        => /\ Stages(run[r]) \cap {"script", "tts", "mix", "cover"} = {}
           /\ Ended(r) => /\ run[r].outcome = "raised"
                          /\ ep.status = FAILED
                          /\ ep.error_message = ErrMemoryScript

\* C12: speech synthesis is started in a run only after a memory sample, taken
\* after script generation, that is at or below the high-water mark.
C12_SynthesisGuarded ==
    \A r \in Workers :
        "tts" \in Stages(run[r]) => run[r].obs.memTts = "ok"


C14_IndexFailureNonFatal ==
    \A r \in Workers :
        run[r].obs.index = "fail"
        => /\ run[r].pc # "chunk"
           /\ \A c \in ChunkIdx : chunkRows[c] >= 1
           /\ "script" \in Stages(run[r]) => run[r].obs.context = "raw"
           /\ Ended(r) => run[r].outcome = ExpectedOutcome(run[r].obs)

\* C14 as amended: the same, with the context built from the raw content when
\* the index holds no point of the episode (or its scroll fails), and from the
\* points an earlier run of the episode stored otherwise.
C14_IndexFailureNonFatalFirstIndex ==
    \A r \in Workers :
        run[r].obs.index = "fail"
        => /\ run[r].pc # "chunk"
           /\ \A c \in ChunkIdx : chunkRows[c] >= 1
           /\ "script" \in Stages(run[r])
              => \/ run[r].obs.context = "raw"
                 \/ /\ run[r].obs.context = "index"
                    /\ deliveries > 1
                    /\ \E c \in ChunkIdx : indexPoints[c] > 0
           /\ (\A c \in ChunkIdx : indexPoints[c] = 0) /\ "script" \in Stages(run[r])
              => run[r].obs.context = "raw"
           /\ Ended(r) => run[r].outcome = ExpectedOutcome(run[r].obs)

C14_Witness ==
    \E r \in Workers :
        /\ run[r].obs.index = "fail"
        /\ run[r].obs.context = "raw"
        /\ run[r].pc = "exited"
        /\ run[r].outcome = "returned"
        /\ ep.status = COMPLETED
        /\ \A c \in ChunkIdx : chunkRows[c] = 1 /\ indexPoints[c] = 0


\* C15: when generate_cover is true and cover generation fails in any way (the
\* generator cannot be built, the backend fails and the image is null, the
\* storage service cannot be built), the run goes on and returns with the
\* episode COMPLETED, and the run leaves cover_url as it was: null on a first
\* run. When generate_cover is false the cover stage is never invoked.
C15_CoverFailureNonFatal ==
    /\ [](\A r \in Workers :
            /\ run[r].obs.cover \in CoverFailures
               => /\ generate_cover
                  /\ run[r].pc \in {"cover_failed", "complete", "cleanup", "exited"}
                  /\ Ended(r) => /\ run[r].outcome = "returned"
                                 /\ ep.status = COMPLETED
                  /\ deliveries = 1 => ep.cover_url = "null"
            /\ ~generate_cover => "cover" \notin Stages(run[r]))
    /\ [][\A r \in Workers :
            run'[r].obs.cover \in CoverFailures => ep'.cover_url = ep.cover_url]_vars

C15_Witness ==
    \E r \in Workers :
        /\ generate_cover
        /\ run[r].obs.cover = "null_image"
        /\ run[r].pc = "exited"
        /\ run[r].outcome = "returned"
        /\ ep.status = COMPLETED
        /\ ep.cover_url = "null"


\* C16: every episode that stays PROCESSING past the abandonment timeout is
\* eventually marked FAILED with the 'abandoned' message, by sweeps that need
\* no further worker start or crash.
C16_AbandonedEventuallyFailed ==
    (ep.status = PROCESSING /\ stale)
        ~> (ep.status = FAILED /\ ep.error_message = ErrAbandoned)


StageOrder == <<"extract", "chunk", "script", "tts", "mix", "cover">>

StagePos(stage) == CHOOSE k \in 1..Len(StageOrder) : StageOrder[k] = stage

\* C17: within one invocation the stages are invoked in the order extraction,
\* chunking, script generation, speech synthesis, mixing, cover, finalize, each
\* at most once; a stage is invoked only after the one before it returned or
\* failed in a degradable way, and mixing only after speech synthesis returned
\* its segment list.
C17_StageOrder ==
    \A r \in Workers :
        LET inv == run[r].invoked
            st == Stages(run[r])
            o == run[r].obs
        IN  /\ \A k, l \in 1..Len(inv) : k < l => StagePos(inv[k]) < StagePos(inv[l])
            /\ "chunk" \in st => ("extract" \in st /\ o.extract = "ok")
            /\ "script" \in st => "chunk" \in st
            /\ "tts" \in st => ("script" \in st /\ o.script = "ok")
            /\ "mix" \in st => ("tts" \in st /\ o.tts = "ok")
            /\ "cover" \in st => (o.script = "ok" /\ run[r].pc \notin {"tts_start", "tts_seg", "mix"})
            /\ run[r].finalWrite = COMPLETED
               => (o.script = "ok" /\ run[r].pc \in {"cleanup", "exited"})

C17_Witness ==
    \E r \in Workers :
        /\ run[r].invoked = StageOrder
        /\ run[r].outcome = "returned"
        /\ run[r].finalWrite = COMPLETED
        /\ ep.status = COMPLETED


\* C18: synthesize_segments calls the speech backend at most 3 times for one
\* segment, retries only after a failure with a timeout or rate-limit signature,
\* and makes exactly one attempt when the first failure is not transient.
C18_BoundedTransientRetry ==
    tts.pc # "idle"
    => \A k \in DOMAIN tts.calls :
          LET c == tts.calls[k]
          IN  /\ Len(c) <= max_retries
              /\ \A a \in 1..(Len(c) - 1) : IsTransient(c[a])
              /\ (Len(c) >= 1 /\ c[1] = "error") => Len(c) = 1
              /\ tts.segments[k + 1] = "blank" => c = <<>>

C18_Witness ==
    /\ tts.pc = "returned"
    /\ \E k \in DOMAIN tts.calls : tts.calls[k] = <<"timeout", "timeout", "timeout">>
    /\ \E k \in DOMAIN tts.calls : tts.calls[k] = <<"error">>
    /\ \E k \in DOMAIN tts.calls : tts.calls[k] = <<"timeout", "ok">>

NonBlank(segments) == {k \in 0..(Len(segments) - 1) : segments[k + 1] # "blank"}

\* C19: synthesize_segments returns exactly one entry per non-blank segment, in
\* input order and carrying the segment's index, with a file path when some
\* attempt succeeded and a null path otherwise; every non-blank segment is
\* attempted, whatever happened to the ones before it.
C19_OneEntryPerSegment ==
    tts.pc \in {"returned", "raised"}
    => /\ Len(tts.results) = Cardinality(NonBlank(tts.segments))
       /\ {tts.results[k].index : k \in 1..Len(tts.results)} = NonBlank(tts.segments)
       /\ \A k, l \in 1..Len(tts.results) :
             k < l => tts.results[k].index < tts.results[l].index
       /\ \A k \in 1..Len(tts.results) :
             LET c == tts.calls[tts.results[k].index]
             IN  tts.results[k].audio_path =
                    (IF \E a \in 1..Len(c) : c[a] = "ok" THEN "file" ELSE "null")
       /\ \A k \in NonBlank(tts.segments) : tts.calls[k] # <<>>


\* C20: AudioMixer.mix never aborts because a segment has a null or missing
\* audio path: on the streaming path and on the in-memory path alike, the mixed
\* track holds exactly the segments whose audio file exists, in input order,
\* and segments_count is their number.
C20_MixSkipsMissing ==
    (mixer.pc = "done" /\ mixer.pydub)
    => LET present == {k \in 1..Len(mixer.segments) : mixer.segments[k] = "file"}
           t == mixer.result.track
       IN  /\ ~mixer.result.raised
           /\ {t[k] : k \in 1..Len(t)} = present
           /\ Len(t) = Cardinality(present)
           /\ \A k, l \in 1..Len(t) : k < l => t[k] < t[l]
           /\ mixer.result.segments_count = Cardinality(present)

\* C21: for N segments that all have valid audio, without intro, outro or
\* music and with a pause of P milliseconds between segments, the duration that
\* AudioMixer.mix reports is the duration of the final track, and that is the
\* sum of the segment durations plus (N-1)*P, on the streaming path and on the
\* in-memory path.
C21_MixDuration ==
    (/\ mixer.pc = "done"
     /\ mixer.pydub
     /\ \A k \in 1..Len(mixer.segments) : mixer.segments[k] = "file")
    => LET N == Len(mixer.segments)
           sum == SumDurations([k \in 1..N |-> k], mixer.durations)
       IN  /\ ~mixer.result.raised
           /\ mixer.result.duration_ms = mixer.result.track_ms
           /\ mixer.result.duration_ms = sum + (N - 1) * mixer.pause

\* C22: the chunks that TextChunker.chunk returns have indices contiguous from
\* 0, each chunk's index being its position in the returned list.
C22_IndexIsPosition ==
    chunker.pc = "done"
    => \A p \in 1..Len(chunker.result) : chunker.result[p].index = p - 1

\* C23: every chunk that TextChunker.chunk returns has a token estimate between
\* min_size and target_size inclusive, chunks seeded with overlap sentences and
\* chunks that continue after a forced split included.
C23_ChunkWithinBudget ==
    chunker.pc = "done"
    => \A p \in 1..Len(chunker.result) :
         /\ chunker.result[p].token_count >= chunker.min_chunk_size
         /\ chunker.result[p].token_count <= chunker.chunk_size

\* C24: a grouped chunk is dropped for being below min_size only when it is the
\* last of the grouped sequence; every other grouped chunk is in the output
\* whatever its size.
C24_OnlyFinalDropped ==
    chunker.pc = "done"
    => \A i \in 0..(Len(chunker.chunks) - 2) :
         \E p \in 1..Len(chunker.result) :
           /\ chunker.result[p].index = i
           /\ chunker.result[p].content = chunker.chunks[i + 1]

\* The pieces the forced split of the last iteration made of its sentence: the
\* chunks appended after the flushed one, and the piece left in current_chunk.
SplitPieces ==
    LET flushed == IF chunker.prev_chunk # <<>> THEN 1 ELSE 0
    IN  SubSeq(chunker.chunks, chunker.prev_count + flushed + 1, Len(chunker.chunks))
        \o <<chunker.current_chunk>>

\* The current chunk was flushed before the split, and the pieces hold the
\* words of the sentence, each once, in order, and nothing else.
SplitAtWordBoundaries ==
    LET s == chunker.k - 1
    IN  /\ chunker.prev_chunk # <<>>
           => /\ Len(chunker.chunks) > chunker.prev_count
              /\ chunker.chunks[chunker.prev_count + 1] = chunker.prev_chunk
        /\ \A p \in 1..Len(SplitPieces) : SplitPieces[p] # <<>>
        /\ Flatten(SplitPieces)
             = [w \in 1..Len(chunker.sentences[s]) |-> Unit(s, w, w)]

AfterForcedSplit == chunker.pc = "group" /\ chunker.step = "split"

\* C25: a sentence whose estimate exceeds target_size is split, after the
\* current chunk is flushed, at word boundaries only into consecutive pieces
\* that hold its words exactly once and in order, each piece within
\* target_size, with no text of the preceding chunk or of the previous piece
\* repeated in a piece.
C25_ForcedSplit ==
    AfterForcedSplit
    => /\ SplitAtWordBoundaries
       /\ \A p \in 1..Len(SplitPieces) :
            ChunkTokens(chunker.sentences, SplitPieces[p]) <= chunker.chunk_size

\* Position in the source of a word: the words of the sentences are numbered
\* from 1 in reading order.
RECURSIVE WordsBefore(_, _)
WordsBefore(sentences, s) ==
    IF s <= 1 THEN 0 ELSE Len(sentences[s - 1]) + WordsBefore(sentences, s - 1)

FirstWord(sentences, u) == WordsBefore(sentences, u.s) + u.a

LastWord(sentences, u) == WordsBefore(sentences, u.s) + u.b

ChunkStart(sentences, chunk) == FirstWord(sentences, chunk[1])

ChunkEnd(sentences, chunk) == LastWord(sentences, chunk[Len(chunk)])

\* The entries of a chunk are whole sentences or single words of a split
\* sentence, and they follow each other in the source without a gap.
ContiguousRun(sentences, chunk) ==
    /\ chunk # <<>>
    /\ \A i \in 1..Len(chunk) :
         chunk[i] = WholeSentence(sentences, chunk[i].s) \/ chunk[i].a = chunk[i].b
    /\ \A i \in 1..(Len(chunk) - 1) :
         FirstWord(sentences, chunk[i + 1]) = LastWord(sentences, chunk[i]) + 1

Grouped == chunker.pc \in {"emit", "done"}

\* C26: in index order the grouped chunks cover the sentences of the text
\* monotonically: every sentence is in some chunk, every chunk is a contiguous
\* run of source sentences (or of words of a split sentence), and every chunk
\* starts no earlier and ends strictly later in the source than the one before.
C26_MonotoneCoverage ==
    Grouped
    => LET ss == chunker.sentences
           cs == chunker.chunks
       IN  /\ \A i \in 1..Len(cs) : ContiguousRun(ss, cs[i])
           /\ \A s \in 1..Len(ss) : \A w \in 1..Len(ss[s]) :
                \E i \in 1..Len(cs) :
                  /\ ChunkStart(ss, cs[i]) <= WordsBefore(ss, s) + w
                  /\ WordsBefore(ss, s) + w <= ChunkEnd(ss, cs[i])
           /\ \A i \in 1..(Len(cs) - 1) :
                /\ ChunkStart(ss, cs[i + 1]) >= ChunkStart(ss, cs[i])
                /\ ChunkEnd(ss, cs[i + 1]) > ChunkEnd(ss, cs[i])

\* Three sentences grouped into chunks of which one repeats the tail of the
\* chunk before it and one follows the chunk before it without overlap.
C26_Witness ==
    /\ Grouped
    /\ Len(chunker.sentences) = 3
    /\ \E i \in 1..(Len(chunker.chunks) - 1) :
         /\ Len(chunker.chunks[i]) >= 2
         /\ ChunkStart(chunker.sentences, chunker.chunks[i + 1])
              <= ChunkEnd(chunker.sentences, chunker.chunks[i])
         /\ ChunkStart(chunker.sentences, chunker.chunks[i + 1])
              > ChunkStart(chunker.sentences, chunker.chunks[i])
    /\ \E i \in 1..(Len(chunker.chunks) - 1) :
         ChunkStart(chunker.sentences, chunker.chunks[i + 1])
           = ChunkEnd(chunker.sentences, chunker.chunks[i]) + 1

\* The call of the scenario has returned: the example text with target_size 12,
\* overlap 4 and min_size 1.
ExampleDone ==
    /\ chunker.pc = "done"
    /\ chunker.text = ExampleText
    /\ chunker.chunk_size = 12
    /\ chunker.chunk_overlap = 4
    /\ chunker.min_chunk_size = 1

\* 'Dr. Smith arrived' is the first sentence: the period of 'Dr.' is kept and
\* is no boundary, the period after 'arrived' is one.
DrSmithKept ==
    /\ Len(chunker.sentences) = 3
    /\ chunker.sentences[1] = <<[stem |-> "Dr", tail |-> 1], [stem |-> "Smith", tail |-> 0],
                                [stem |-> "arrived", tail |-> 0]>>

EndsAtBoundary(chunk) ==
    chunk[Len(chunk)].b = Len(chunker.sentences[chunk[Len(chunk)].s])

\* C27: for the example text with target_size 12, overlap 4 and min_size 1,
\* 'Dr. Smith arrived' is kept as one sentence, at least two chunks are
\* returned, each of them ends at a sentence boundary, and the second chunk
\* begins with the overlap tail of the first.
C27_ExampleChunks ==
    ExampleDone
    => LET r == chunker.result
       IN  /\ DrSmithKept
           /\ Len(r) >= 2
           /\ \A p \in 1..Len(r) : EndsAtBoundary(r[p].content)
           /\ \E n \in 1..Len(r[1].content) :
                /\ n <= Len(r[2].content)
                /\ SubSeq(r[2].content, 1, n)
                     = SubSeq(r[1].content, Len(r[1].content) - n + 1,
                              Len(r[1].content))

\* C27 as it holds: 'Dr. Smith arrived' is kept as one sentence; the first
\* chunk is the first two sentences and ends at a sentence boundary; the third
\* sentence (22 tokens) is above target_size, so the later chunks are the
\* pieces of its forced split, each starting at the word after the end of the
\* chunk before it, and only the last of them ends at a sentence boundary.
C27_ExampleChunksSplit ==
    ExampleDone
    => LET r == chunker.result
           ss == chunker.sentences
       IN  /\ DrSmithKept
           /\ Len(r) = 5
           /\ \A p \in 1..Len(r) : r[p].index = p - 1
           /\ r[1].content = <<WholeSentence(ss, 1), WholeSentence(ss, 2)>>
           /\ \A p \in 2..Len(r) :
                /\ \A i \in 1..Len(r[p].content) : r[p].content[i].s = 3
                /\ ChunkStart(ss, r[p].content) = ChunkEnd(ss, r[p - 1].content) + 1
                /\ EndsAtBoundary(r[p].content) <=> p = Len(r)

C27_Witness == ExampleDone /\ Len(chunker.result) >= 2

AfterClose == chunker.pc = "group" /\ chunker.step = "overlap"

\* The start of the longest suffix of the closed chunk that consists of whole
\* sentences whose summed token estimates do not exceed the overlap.
LongestTail(ss, closed, overlap) ==
    LET n == Len(closed)
        fits(j) == /\ \A i \in j..n : closed[i] = WholeSentence(ss, closed[i].s)
                   /\ SumTokens(ss, SubSeq(closed, j, n)) <= overlap
        j0 == CHOOSE j \in 1..(n + 1) :
                  fits(j) /\ \A l \in 1..(n + 1) : fits(l) => j <= l
    IN  SubSeq(closed, j0, n)

\* C30: when the next sentence does not fit, the current chunk is closed and
\* the next chunk is the longest suffix of whole sentences of the closed chunk
\* whose summed token estimates stay within overlap, followed by the new
\* sentence; it is the new sentence alone when no trailing sentence fits.
C30_OverlapSeed ==
    AfterClose
    => LET ss == chunker.sentences
           closed == chunker.prev_chunk
       IN  /\ Len(chunker.chunks) = chunker.prev_count + 1
           /\ chunker.chunks[Len(chunker.chunks)] = closed
           /\ chunker.current_chunk
                = LongestTail(ss, closed, chunker.chunk_overlap)
                  \o <<WholeSentence(ss, chunker.k - 1)>>

\* C28: with the adds and lookups of two episodes interleaved in any order,
\* get_episode_chunks(e) returns only chunks that were added with episode id
\* e, in ascending order of chunk index.
C28_EpisodeIsolation ==
    vstore.pc = "open" /\ vstore.asked # "none"
    => LET r == vstore.result
       IN  /\ \A k \in 1..Len(r) :
                \E p \in vstore.points :
                  /\ p.id = r[k].id
                  /\ p.by = vstore.asked
                  /\ p.payload.chunk_index = r[k].chunk_index
           /\ \A k, l \in 1..Len(r) :
                k < l => r[k].chunk_index <= r[l].chunk_index

\* Both episodes have points in the collection, and a lookup returned two
\* chunks of one episode in an order that is not the order of their ids.
C28_Witness ==
    /\ vstore.pc = "open"
    /\ \A e \in Episodes : \E p \in vstore.points : p.by = e
    /\ Len(vstore.result) >= 2
    /\ vstore.result[1].id > vstore.result[2].id
    /\ vstore.result[1].chunk_index < vstore.result[2].chunk_index

\* C29: the voice of a persona is a function of its position: default_male
\* at an even index and default_female at an odd one, unless the persona
\* gives an explicit voice, which is then the one used.
C29_VoiceAssignment ==
    voices.pc \in {"mapped", "looked"}
    => \A i \in 0..(Len(voices.personas) - 1) :
         LET persona == voices.personas[i + 1]
         IN  VoiceOf(voices.voice_mapping, SpeakerName(persona, i))
               = IF persona.voice_id # "none" THEN persona.voice_id
                 ELSE IF i % 2 = 0 THEN "default_male" ELSE "default_female"

\* C31: the token estimate of a text of c characters is the ceiling of c/4,
\* for every c >= 0: here for the text of every returned chunk, and for the
\* empty text.
C31_EstimateIsCeiling ==
    chunker.pc = "done"
    => /\ estimate_tokens(0) = 0
       /\ \A p \in 1..Len(chunker.result) :
            LET c == JoinLen(chunker.sentences, chunker.result[p].content)
                t == chunker.result[p].token_count
            IN  4 * (t - 1) < c /\ c <= 4 * t

LlmInFlight == Cardinality({t \in LlmAttempts : llm.threads[t] = "running"})

\* C33: at most one completion request is in flight at any time: a request
\* that the watchdog timed out is no longer running when the next attempt is
\* issued, and the response a call returns is the one of the attempt it
\* waited for last, never a late response of a timed-out attempt.
C33_OneRequestInFlight ==
    llm.pc # "idle"
    => /\ LlmInFlight <= 1
       /\ llm.pc = "returned" => llm.result_by = llm.attempt

LlmEnded == llm.pc \in {"returned", "raised"}

\* At most 3 requests are made, the loop never runs out into the direct-HTTP
\* fallback, and a call that returned has text.
LlmBounded ==
    llm.pc # "idle"
    => /\ llm.calls <= 3
       /\ llm.pc # "fallback"
       /\ llm.pc = "returned" => llm.result = "text"

\* C39: one call through the hosted client makes at most 3 backend attempts
\* and always ends by returning text or raising; it never retries after an
\* authentication or model error, and it never falls through to the
\* direct-HTTP fallback.
C39_BoundedAttempts ==
    /\ [](LlmBounded /\ \A e \in llm.retried_after : e.kind \notin {"auth", "model"})
    /\ <>LlmEnded

\* C39 as it holds: the same, where an authentication or model error is not
\* retried unless its message also carries one of the keywords that are
\* tested before: timeout, timed out, connection, network, 429 or rate limit.
C39_BoundedAttemptsByKeyword ==
    /\ [](LlmBounded
          /\ \A e \in llm.retried_after :
               e.kind \in {"auth", "model"}
               => (e.text \cap {"transient", "rate"}) # {})
    /\ <>LlmEnded

\* A call that made all three attempts, retried after a rate limit and after
\* a watchdog timeout, and ended by raising.
C39_Witness ==
    /\ llm.pc = "raised"
    /\ llm.calls = 3
    /\ \E e \in llm.retried_after : e.kind = "rate"
    /\ \E e \in llm.retried_after : e.kind = "watchdog"

\* str.upper() on the names and labels that occur.
Upper(name) ==
    CASE name \in {"Alex", "ALEX"} -> "ALEX"
      [] name \in {"Sam", "SAM"} -> "SAM"
      [] name = "Narrator" -> "NARRATOR"
      [] OTHER -> name

\* C32: the voice a segment is synthesized with is the voice assigned to the
\* persona whose name equals the segment's speaker label ignoring letter case;
\* the default voice is used only when no persona name matches that way.
C32_VoiceByLabelIgnoringCase ==
    voices.pc = "looked"
    => LET n == Len(voices.personas)
           matching == {i \in 0..(n - 1) :
                          Upper(SpeakerName(voices.personas[i + 1], i))
                            = Upper(voices.speaker)}
       IN  IF matching = {} THEN voices.voice_id = "default_male"
           ELSE \E i \in matching :
                  voices.voice_id
                    = voices.voice_mapping[SpeakerName(voices.personas[i + 1], i)]

\* C34: an episode persisted as COMPLETED carries no error message; in
\* particular, after a run of the episode has failed and a later run of it
\* completes, the persisted error message is empty.
C34_CompletedWithoutError ==
    ep.status = COMPLETED => ep.error_message = ""

\* C35: every episode persisted as FAILED has progress 0, whether the failure
\* handler of process_episode_task or the abandoned-job sweeper marked it.
C35_FailedHasProgressZero ==
    ep.status = FAILED => ep.progress = 0

C37_CleanupSparesOtherRun ==
    [][\A r \in Workers :
         (run[r].pc = "cleanup" /\ run'[r].pc = "exited")
         => \A q \in Workers \ {r} :
              run[q].pc \in {"tts_seg", "cp80", "mix"}
              => (run[q].synth \cap segFiles) \subseteq segFiles']_vars

\* C36: under every interleaving of create_episode with the run of the job it
\* enqueues, the worker finds the episode row, and the commit create_episode
\* makes after enqueueing never overwrites the status, the progress or the
\* message that the run has persisted.
C36_CommitKeepsRunState ==
    [][(api.pc = "enqueued" /\ api'.pc = "done" /\ ep.status # PENDING)
       => /\ ep'.status = ep.status
          /\ ep'.progress = ep.progress
          /\ ep'.status_message = ep.status_message]_vars

====
